---------------------------- MODULE Spec2Model ----------------------------
(***************************************************************************)
(* Monitoring / alerting core of the liquidation alerter:                  *)
(*   - ReorgSafeStateTracker   (app/services/reorg.py)                     *)
(*   - GasAwareAlerter         (app/core/alerter.py)                       *)
(*   - SmartPollingManager and MonitoringEngine._process_position          *)
(*                             (app/core/engine.py)                        *)
(*   - assess_health           (app/core/health.py)                        *)
(*                                                                         *)
(* Units.  Health factors are integers in thousandths (1.3 is 1300); the   *)
(* float infinity of a debt-free position is the sentinel Inf, and every   *)
(* float expression that yields nan or an infinity on it is modelled by    *)
(* the comparison result Python gives (nan compares False).  USD amounts   *)
(* are whole dollars.  Time is in whole seconds.                           *)
(***************************************************************************)
EXTENDS Integers, Sequences, FiniteSets, TLC

VARIABLES
    state_history,     \* ReorgSafeStateTracker._state_history: key -> deque
    confirmed_states,  \* ReorgSafeStateTracker._confirmed_states: key -> ConfirmedState
    block_numbers,     \* ReorgSafeStateTracker._block_numbers: chain -> int
    rs,                \* the last record_state call: its arguments and result
    now,               \* the wall clock (time.time(), datetime.utcnow()), seconds
    alert_history,     \* GasAwareAlerter._alert_history: key -> AlertRecord
    health_history,    \* GasAwareAlerter._health_history: key -> HealthHistory
    al,                \* the last check_and_alert call: its arguments and result
    ledger,            \* per alert key: sends delivered since the key was last
                       \* cleared, and the last call if its send failed
    thresholds,        \* User.alert_threshold, User.critical_threshold per chat
    gas_eth,           \* MonitoringEngine._gas_price_gwei, ._eth_price_usd
    last_check,        \* SmartPollingManager._last_check: key -> time
    health_factors,    \* SmartPollingManager._health_factors: key -> health factor
    snapshots,         \* the PositionSnapshot rows committed so far
    pl,                \* the last fetch of a pair or record_check call
    eth_block_number,  \* web3.eth.block_number: the head of the chain
    eth_logs,          \* the liquidation logs on chain, per protocol
    recent_liquidations,   \* LiquidationCascadeDetector._recent_liquidations
    last_checked_block,    \* LiquidationCascadeDetector._last_checked_block
    cascade_alert_history, \* LiquidationCascadeDetector._alert_history
    cd,                \* the last check_for_cascades call: outcomes and result
    cascade_returned,  \* every CascadeAlert returned so far, with its time
    alerts_paused,     \* User.alerts_paused per chat, as stored in the database
    cycle_count,       \* MonitoringEngine._cycle_count
    cy,                \* the monitoring cycle in progress or last finished: the
                       \* users it loaded, what is left to do, what it has done
    running,           \* MonitoringEngine._running
    loop_pc,           \* where each call of start() is in its code
    stop_called,       \* whether stop() has been called since the last call
                       \* of start()
    ha,                \* the last assess_health call: its arguments and result
    uh,                \* the last calculate_unified_health_score call
    steps              \* number of operations performed so far

trackerVars == <<state_history, confirmed_states, block_numbers, rs>>
alerterVars == <<alert_history, health_history, al, ledger>>
pollVars == <<last_check, health_factors, snapshots, pl>>
cascadeVars == <<eth_block_number, eth_logs, recent_liquidations, last_checked_block,
                 cascade_alert_history, cd, cascade_returned>>
cycleVars == <<alerts_paused, cycle_count, cy>>
lifeVars == <<running, loop_pc, stop_called>>
healthVars == <<ha, uh>>
engineVars == <<cascadeVars, cycleVars, lifeVars, healthVars>>
vars == <<trackerVars, alerterVars, pollVars, engineVars, now, thresholds, gas_eth, steps>>

---------------------------------------------------------------------------
(* Bounds of the model *)

MaxSteps == 5
MaxAlerterSteps == 3
MaxEngineSteps == 4
MaxClearSteps == 4

\* how far one chain read may be ahead of the previous one
BlockJumps == {1, 2}

\* how long the clock may run between two operations
TickSteps == {300, 900, 3600, 86400}

StartTime == 1700000000

---------------------------------------------------------------------------
(* Values *)

Inf == 1000000000

Abs(x) == IF x < 0 THEN 0 - x ELSE x
Max(a, b) == IF a >= b THEN a ELSE b
Min(a, b) == IF a <= b THEN a ELSE b

\* wallet addresses as the callers spell them, and str.lower() on them
Wallets == {"0xAB"}
Lower(w) == IF w = "0xAB" THEN "0xab" ELSE w

Protocols == {"Aave V3 (Ethereum)", "Compound V3 (Ethereum)"}
Chains == {"ethereum"}

\* the protocols the dispatcher is exercised on
AlertProtocols == {"Aave V3 (Ethereum)"}

\* _get_chain_from_protocol: the text between the parentheses, lower-cased
GetChainFromProtocol(p) ==
    CASE p = "Aave V3 (Ethereum)" -> "ethereum"
      [] p = "Compound V3 (Ethereum)" -> "ethereum"
      [] OTHER -> "ethereum"

\* observed positions: health factor, collateral and debt as an adapter
\* reports them (health_factor is inf iff total_debt_usd is 0)
Positions ==
    { [health_factor |-> 1000, total_collateral_usd |-> 10000, total_debt_usd |-> 8000],
      [health_factor |-> 1200, total_collateral_usd |-> 10000, total_debt_usd |-> 6667],
      [health_factor |-> 1205, total_collateral_usd |-> 10040, total_debt_usd |-> 6667],
      [health_factor |-> 1300, total_collateral_usd |-> 10000, total_debt_usd |-> 6154],
      [health_factor |-> Inf,  total_collateral_usd |-> 10000, total_debt_usd |-> 0] }

---------------------------------------------------------------------------
(* ReorgSafeStateTracker *)

CONFIRMATION_BLOCKS == 3
CRITICAL_CONFIRMATION_BLOCKS == 2
STATE_HISTORY_SIZE == 10

\* ReorgSafeStateTracker._get_key
TrackerKey(wallet, protocol) == <<Lower(wallet), protocol>>

\* mutant: a deque without maxlen
DequeAppendUnbounded(q, x, maxlen) == Append(q, x)

\* deque(maxlen=n).append
DequeAppend(q, x, maxlen) ==
    IF Len(q) >= maxlen THEN Append(Tail(q), x) ELSE Append(q, x)

\* abs(a - b) / max(a, floor) < 1/den, on floats a, b (inf gives nan or inf: False)
RelClose(a, b, floor, den) ==
    IF a = Inf \/ b = Inf THEN FALSE
    ELSE Abs(a - b) * den < Max(a, floor)

\* ReorgSafeStateTracker._states_match(state1, state2)
StatesMatch(state1, state2) ==
    /\ RelClose(state1.health_factor, state2.health_factor, 1, 100)
    /\ RelClose(state1.total_collateral_usd, state2.total_collateral_usd, 1, 200)
    /\ RelClose(state1.total_debt_usd, state2.total_debt_usd, 1, 200)

\* mutant: the critical bound taken inclusively
IsCriticalInclusive(hf) == hf <= 1300

IsCritical(hf) == hf < 1300
IsLiquidatable(hf) == hf <= 1000

\* required_blocks of record_state
RequiredBlocks(hf) ==
    IF IsCritical(hf) \/ IsLiquidatable(hf)
    THEN CRITICAL_CONFIRMATION_BLOCKS
    ELSE CONFIRMATION_BLOCKS

\* the loop of record_state that lowers first_seen_block
RECURSIVE FirstSeenFrom(_, _, _, _)
FirstSeenFrom(history, new_state, i, acc) ==
    IF i > Len(history) THEN acc
    ELSE FirstSeenFrom(history, new_state, i + 1,
            IF StatesMatch(history[i], new_state)
            THEN Min(acc, history[i].block_number)
            ELSE acc)

\* mutant: the history is never scanned for an earlier sighting
FirstSeenBlockNoScan(history, new_state) == new_state.block_number

FirstSeenBlock(history, new_state) ==
    FirstSeenFrom(history, new_state, 1, new_state.block_number)

\* mutant: only the critical flag is compared
ConfirmedStatesMatchCriticalOnly(state1, state2) ==
    state1.is_critical = state2.is_critical

\* ReorgSafeStateTracker._confirmed_states_match
ConfirmedStatesMatch(state1, state2) ==
    /\ state1.is_critical = state2.is_critical
    /\ state1.is_liquidatable = state2.is_liquidatable

\* dict.get(key): a sequence holding the value, empty for None
Get(dict, key) == IF key \in DOMAIN dict THEN <<dict[key]>> ELSE <<>>

\* dict[key] = value
Put(dict, key, value) ==
    [k \in DOMAIN dict \cup {key} |-> IF k = key THEN value ELSE dict[k]]

\* dict.pop(key, None) for every key of a set
Drop(dict, keys) == [k \in DOMAIN dict \ keys |-> dict[k]]

\* record_state on the tracker's maps: the new maps and the returned pair
RecordStateResult(hist, conf, key, pos, block_number) ==
    LET new_state == [health_factor |-> pos.health_factor,
                      total_collateral_usd |-> pos.total_collateral_usd,
                      total_debt_usd |-> pos.total_debt_usd,
                      block_number |-> block_number]
        old == IF key \in DOMAIN hist THEN hist[key] ELSE <<>>
        history == DequeAppend(old, new_state, STATE_HISTORY_SIZE)
        hist2 == Put(hist, key, history)
        first_seen_block == FirstSeenBlock(history, new_state)
        blocks_confirmed == block_number - first_seen_block + 1
        confirmed == [health_factor |-> pos.health_factor,
                      total_collateral_usd |-> pos.total_collateral_usd,
                      total_debt_usd |-> pos.total_debt_usd,
                      is_critical |-> IsCritical(pos.health_factor),
                      is_liquidatable |-> IsLiquidatable(pos.health_factor),
                      confirmed_at_block |-> block_number,
                      first_seen_at_block |-> first_seen_block]
        previous_confirmed == Get(conf, key)
    IN  IF Len(history) < 2
        THEN [history |-> hist2, confirmed |-> conf,
              is_new |-> FALSE, state |-> <<>>, did_confirm |-> FALSE]
        ELSE IF blocks_confirmed >= RequiredBlocks(pos.health_factor)
        THEN [history |-> hist2, confirmed |-> Put(conf, key, confirmed),
              is_new |-> \/ previous_confirmed = <<>>
                         \/ ~ConfirmedStatesMatch(previous_confirmed[1], confirmed),
              state |-> <<confirmed>>, did_confirm |-> TRUE]
        ELSE [history |-> hist2, confirmed |-> conf,
              is_new |-> FALSE, state |-> Get(conf, key), did_confirm |-> FALSE]

NoCall == [op |-> "none"]

\* ReorgSafeStateTracker.update_block_number, as _update_block_numbers calls
\* it: with the chain's block number, which is ahead of the one read before
UpdateBlockNumberBy(chain, d) ==
    /\ block_numbers' = Put(block_numbers, chain,
                            (IF chain \in DOMAIN block_numbers
                             THEN block_numbers[chain] ELSE 0) + d)
    /\ rs' = NoCall
    /\ steps' = steps + 1
    /\ UNCHANGED engineVars
    /\ UNCHANGED <<state_history, confirmed_states, alerterVars, now, thresholds, gas_eth, pollVars>>

\* update_block_number within the step bound of the small specifications
UpdateBlockNumber(chain) ==
    steps < MaxSteps /\ \E d \in BlockJumps : UpdateBlockNumberBy(chain, d)

\* ReorgSafeStateTracker.get_block_number
GetBlockNumber(chain) ==
    IF chain \in DOMAIN block_numbers THEN block_numbers[chain] ELSE 0

\* ReorgSafeStateTracker.record_state, called with the chain's current block
RecordStateCall(wallet, protocol, pos) ==
    LET key == TrackerKey(wallet, protocol)
        block_number == GetBlockNumber(GetChainFromProtocol(protocol))
        r == RecordStateResult(state_history, confirmed_states, key, pos, block_number)
    IN  /\ state_history' = r.history
        /\ confirmed_states' = r.confirmed
        /\ rs' = [op |-> "record_state", key |-> key, pos |-> pos,
                  block_number |-> block_number,
                  history_before |-> IF key \in DOMAIN state_history
                                     THEN state_history[key] ELSE <<>>,
                  previous_confirmed |-> Get(confirmed_states, key),
                  is_new |-> r.is_new, state |-> r.state,
                  did_confirm |-> r.did_confirm]
        /\ steps' = steps + 1
        /\ UNCHANGED engineVars
        /\ UNCHANGED <<block_numbers, alerterVars, now, thresholds, gas_eth, pollVars>>

\* record_state within the step bound of the small specifications
RecordState(wallet, protocol, pos) ==
    steps < MaxSteps /\ RecordStateCall(wallet, protocol, pos)

\* str.startswith on a tracker key "address:protocol": every modelled address
\* has the same length, so the key starts with an address iff it is its address
KeyStartsWith(key, address) == key[1] = address

\* mutant: clear_history leaves the confirmed states alone
ConfirmedAfterClearKept(conf, keys_to_remove) == conf

\* self._confirmed_states.pop(key, None) for every key clear_history removes
ConfirmedAfterClear(conf, keys_to_remove) == Drop(conf, keys_to_remove)

\* ReorgSafeStateTracker.get_stats: the three counts taken from the two maps
GetStats(hist, conf) ==
    [tracked_positions |-> Cardinality(DOMAIN hist),
     confirmed_states |-> Cardinality(DOMAIN conf),
     pending_confirmation |-> Cardinality(DOMAIN hist) - Cardinality(DOMAIN conf)]

\* ReorgSafeStateTracker.clear_history(wallet_address, protocol=None); the
\* empty sequence is protocol=None
ClearHistoryCall(wallet, protocol) ==
    LET keys_to_remove ==
            IF protocol # <<>>
            THEN {TrackerKey(wallet, protocol[1])}
            ELSE {k \in DOMAIN state_history : KeyStartsWith(k, Lower(wallet))}
    IN  /\ state_history' = Drop(state_history, keys_to_remove)
        /\ confirmed_states' = ConfirmedAfterClear(confirmed_states, keys_to_remove)
        /\ rs' = [op |-> "clear_history", removed |-> keys_to_remove,
                  confirmed_before |-> DOMAIN confirmed_states]
        /\ steps' = steps + 1
        /\ UNCHANGED engineVars
        /\ UNCHANGED <<block_numbers, alerterVars, now, thresholds, gas_eth, pollVars>>

\* clear_history within the step bound of the small specifications
ClearHistory(wallet, protocol) ==
    steps < MaxSteps /\ ClearHistoryCall(wallet, protocol)

---------------------------------------------------------------------------
(* assess_health *)

HEALTHY == "healthy"
WARNING == "warning"
CRITICAL == "critical"
LIQUIDATABLE == "liquidatable"

\* the status waterfall of assess_health
AssessStatus(hf, warning_threshold, critical_threshold) ==
    IF hf <= 1000 THEN LIQUIDATABLE
    ELSE IF hf <= critical_threshold THEN CRITICAL
    ELSE IF hf <= warning_threshold THEN WARNING
    ELSE HEALTHY

\* Settings.health_factor_threshold, .critical_health_factor_threshold
DefaultWarningThreshold == 1500
DefaultCriticalThreshold == 1100

\* values a user gives /set_threshold (accepted between 1.0 and 5.0)
ThresholdChoices == {1100, 1500}

\* `user.alert_threshold or settings.health_factor_threshold` of _monitor_cycle
WarningThresholdOf(user) ==
    IF user.alert_threshold = 0 THEN DefaultWarningThreshold ELSE user.alert_threshold
CriticalThresholdOf(user) ==
    IF user.critical_threshold = 0 THEN DefaultCriticalThreshold
    ELSE user.critical_threshold

---------------------------------------------------------------------------
(* GasAwareAlerter *)

Chats == {11, 22}

\* wallet addresses as positions carry them to the dispatcher
AlertWallets == {"0xAB", "0xCD"}

\* positions handed to the dispatcher
AlertPositions ==
    { [health_factor |-> 1000, total_collateral_usd |-> 10000, total_debt_usd |-> 8000],
      [health_factor |-> 1080, total_collateral_usd |-> 10000, total_debt_usd |-> 7407],
      [health_factor |-> 1150, total_collateral_usd |-> 10000, total_debt_usd |-> 6957],
      [health_factor |-> 1300, total_collateral_usd |-> 10000, total_debt_usd |-> 6154],
      [health_factor |-> 2000, total_collateral_usd |-> 10000, total_debt_usd |-> 4000],
      [health_factor |-> 3000, total_collateral_usd |-> 10000, total_debt_usd |-> 2667] }

\* gas price (Gwei) and ETH price (USD) as the price service reports them;
\* the empty sequence stands for either of them being None
GasChoices ==
    { <<>>,
      <<[gas_price_gwei |-> 2000, eth_price_usd |-> 2000]>> }

\* mutant: WARNING given the CRITICAL cooldown
CooldownPeriodWarningShort(status) ==
    CASE status = LIQUIDATABLE -> 300
      [] status = CRITICAL -> 900
      [] status = WARNING -> 900
      [] status = HEALTHY -> 86400

\* COOLDOWN_PERIODS
CooldownPeriod(status) ==
    CASE status = LIQUIDATABLE -> 300
      [] status = CRITICAL -> 900
      [] status = WARNING -> 3600
      [] status = HEALTHY -> 86400

\* status_priority of _should_alert
StatusPriority(status) ==
    CASE status = HEALTHY -> 0
      [] status = WARNING -> 1
      [] status = CRITICAL -> 2
      [] status = LIQUIDATABLE -> 3

HEALTH_HISTORY_SIZE == 60
DETERIORATION_WINDOW == 3600

\* GasAwareAlerter._get_alert_key, ._get_history_key
AlertKey(chat_id, wallet, protocol) == <<chat_id, wallet, protocol>>
HistoryKey(wallet, protocol) == <<wallet, protocol>>

EmptyHealthHistory == [timestamps |-> <<>>, health_factors |-> <<>>]

\* HealthHistory.add
HealthHistoryAdd(h, t, hf) ==
    [timestamps |-> DequeAppend(h.timestamps, t, HEALTH_HISTORY_SIZE),
     health_factors |-> DequeAppend(h.health_factors, hf, HEALTH_HISTORY_SIZE)]

\* the loop of get_deterioration_rate: the sample before the first one at or
\* after the cutoff, as a sequence (empty: old_hf stays None)
RECURSIVE OldHfFrom(_, _, _)
OldHfFrom(h, cutoff, i) ==
    IF i > Len(h.timestamps) \/ i > Len(h.health_factors) THEN <<>>
    ELSE IF h.timestamps[i] >= cutoff
         THEN (IF i > 1 THEN <<h.health_factors[i - 1]>> ELSE <<>>)
         ELSE OldHfFrom(h, cutoff, i + 1)

\* HealthHistory.get_deterioration_rate, as far as the caller uses it:
\* whether the rate is a number above threshold_percent.  None, 0.0 and nan
\* are not; (old - cur) / old * 100 > p is (old - cur) * 100 > p * old
DeteriorationAbove(h, t, threshold_percent) ==
    LET old == OldHfFrom(h, t - DETERIORATION_WINDOW, 1)
        cur == h.health_factors[Len(h.health_factors)]
    IN  /\ Len(h.health_factors) >= 2
        /\ old # <<>>
        /\ old[1] # 0
        /\ old[1] # Inf
        /\ cur # Inf
        /\ (old[1] - cur) * 100 > threshold_percent * old[1]

DETERIORATION_THRESHOLD_PERCENT == 10
GAS_COST_THRESHOLD_PERCENT == 5

\* _check_rapid_deterioration: the history after history.add, and the verdict
CheckRapidDeterioration(hh, wallet, protocol, current_hf, t) ==
    LET history_key == HistoryKey(wallet, protocol)
        before == IF history_key \in DOMAIN hh THEN hh[history_key]
                  ELSE EmptyHealthHistory
        history == HealthHistoryAdd(before, t, current_hf)
    IN  [health_history |-> Put(hh, history_key, history),
         rapid |-> DeteriorationAbove(history, t, DETERIORATION_THRESHOLD_PERCENT)]

\* mutant: the two priorities compared the wrong way round
StatusWorsenedSwapped(current_status, record_status) ==
    StatusPriority(record_status) > StatusPriority(current_status)

\* _should_alert, "Always alert if status worsened"
StatusWorsened(current_status, record_status) ==
    StatusPriority(current_status) > StatusPriority(record_status)

\* mutant: the drop threshold taken as 20%
SignificantHfDropTwentyPercent(record_hf, current_hf) ==
    /\ record_hf > 0
    /\ record_hf # Inf
    /\ current_hf # Inf
    /\ (record_hf - current_hf) * 5 > record_hf

\* _should_alert, "Alert if HF dropped significantly even within same status":
\* (record - current) / record > 0.1, which on an infinity is nan or -inf: False
SignificantHfDrop(record_hf, current_hf) ==
    /\ record_hf > 0
    /\ record_hf # Inf
    /\ current_hf # Inf
    /\ (record_hf - current_hf) * 10 > record_hf

\* _should_alert, "if key not in self._alert_history"
IsFirstAlert(ah, key) == key \notin DOMAIN ah

\* _should_alert
ShouldAlert(ah, key, current_status, current_hf, t) ==
    IF IsFirstAlert(ah, key)
    THEN [should |-> TRUE, reason |-> "first_alert"]
    ELSE LET record == ah[key]
             cooldown == CooldownPeriod(current_status)
         IN  IF StatusWorsened(current_status, record.status)
             THEN [should |-> TRUE, reason |-> "status_worsened"]
             ELSE IF SignificantHfDrop(record.health_factor, current_hf)
             THEN [should |-> TRUE, reason |-> "significant_hf_drop"]
             ELSE IF t - record.last_alert_time >= cooldown
             THEN [should |-> TRUE, reason |-> "cooldown_expired"]
             ELSE [should |-> FALSE, reason |-> "None"]

\* _is_gas_economical: gas_cost_usd = gwei * 200000 / 1e9 * eth = gwei * eth / 5000,
\* and gas_cost_usd / collateral * 100 > 5 is gwei * eth * 100 > 5 * 5000 * collateral
IsGasEconomical(pos, gas) ==
    IF gas = <<>> THEN TRUE
    ELSE ~ ( /\ pos.total_collateral_usd > 0
             /\ gas[1].gas_price_gwei * gas[1].eth_price_usd * 100
                  > GAS_COST_THRESHOLD_PERCENT * 5000 * pos.total_collateral_usd )

\* mutant: HEALTHY suppressed even on rapid deterioration
HealthySuppressedAlways(status, rapid_deterioration) == status = HEALTHY

\* mutant: HEALTHY never suppressed
HealthySuppressedNever(status, rapid_deterioration) == FALSE

\* check_and_alert, "Don't alert for healthy positions (unless rapid deterioration)"
HealthySuppressed(status, rapid_deterioration) ==
    status = HEALTHY /\ ~rapid_deterioration

\* mutant: an uneconomical gas cost holds the alert back
SendGateEconomical(should_alert, is_economical) == should_alert /\ is_economical

\* check_and_alert, "if not should_alert: return False": the gas verdict is
\* computed after this test and takes no part in it
SendGate(should_alert, is_economical) == should_alert

\* mutant: every alert is stored with count 1
NextAlertCountReset(ah, key) == 1

\* alert_count of the AlertRecord written after a send
NextAlertCount(ah, key) ==
    (IF key \in DOMAIN ah THEN ah[key].alert_count ELSE 0) + 1

\* mutant: the record is written whether or not the send succeeded
AlertHistoryAfterSendAlways(ah, key, record, send_ok) == Put(ah, key, record)

\* mutant: a failed send restarts the cooldown of an existing record
AlertHistoryAfterSendTouch(ah, key, record, send_ok) ==
    IF send_ok THEN Put(ah, key, record)
    ELSE IF key \in DOMAIN ah
         THEN Put(ah, key, [ah[key] EXCEPT !.last_alert_time = record.last_alert_time])
         ELSE ah

\* the try block of check_and_alert: the record is written after send_message
\* returned; an exception skips the write
AlertHistoryAfterSend(ah, key, record, send_ok) ==
    IF send_ok THEN Put(ah, key, record) ELSE ah

\* check_and_alert: the alerter's maps after the call, and what the call did
CheckAndAlertResult(ah, hh, chat_id, wallet, protocol, pos, status, gas, send_ok, t) ==
    LET rd == CheckRapidDeterioration(hh, wallet, protocol, pos.health_factor, t)
        key == AlertKey(chat_id, wallet, protocol)
        sa == ShouldAlert(ah, key, status, pos.health_factor, t)
        should_alert == sa.should \/ rd.rapid
        reason == IF rd.rapid /\ ~sa.should THEN "rapid_deterioration" ELSE sa.reason
        is_economical == IsGasEconomical(pos, gas)
        record == [status |-> status,
                   health_factor |-> pos.health_factor,
                   last_alert_time |-> t,
                   alert_count |-> NextAlertCount(ah, key)]
        call == [op |-> "check_and_alert", key |-> key, status |-> status,
                 health_factor |-> pos.health_factor, time |-> t,
                 record_before |-> Get(ah, key), rapid |-> rd.rapid]
    IN  IF HealthySuppressed(status, rd.rapid)
        THEN [alert_history |-> ah, health_history |-> rd.health_history,
              call |-> call @@ [attempted |-> FALSE, send_failed |-> FALSE,
                                result |-> FALSE,
                                reason |-> "None", gas_warning |-> FALSE]]
        ELSE IF ~SendGate(should_alert, is_economical)
        THEN [alert_history |-> ah, health_history |-> rd.health_history,
              call |-> call @@ [attempted |-> FALSE, send_failed |-> FALSE,
                                result |-> FALSE,
                                reason |-> "None", gas_warning |-> FALSE]]
        ELSE [alert_history |-> AlertHistoryAfterSend(ah, key, record, send_ok),
              health_history |-> rd.health_history,
              call |-> call @@ [attempted |-> TRUE, send_failed |-> ~send_ok,
                                result |-> send_ok,
                                reason |-> reason,
                                gas_warning |-> /\ ~is_economical
                                                /\ status \in {CRITICAL, LIQUIDATABLE}]]

\* the clock runs for d seconds
TickByCall(d) ==
    /\ now' = now + d
    /\ rs' = NoCall
    /\ al' = NoCall
    /\ steps' = steps + 1
    /\ UNCHANGED engineVars
    /\ UNCHANGED <<state_history, confirmed_states, block_numbers, alert_history,
                   health_history, ledger, thresholds, gas_eth, pollVars>>

\* the clock within the step bound of the small specifications
TickBy(d) == steps < MaxSteps /\ TickByCall(d)

Tick == \E d \in TickSteps : TickBy(d)

\* set_threshold_command: a user sets User.alert_threshold
SetThreshold(chat_id, threshold) ==
    /\ steps < MaxSteps
    /\ threshold >= 1000 /\ threshold <= 5000
    /\ thresholds' = [thresholds EXCEPT ![chat_id].alert_threshold = threshold]
    /\ rs' = NoCall
    /\ al' = NoCall
    /\ steps' = steps + 1
    /\ UNCHANGED engineVars
    /\ UNCHANGED <<state_history, confirmed_states, block_numbers, alert_history,
                   health_history, ledger, now, gas_eth, pollVars>>

\* the start of _monitor_cycle: gas price and ETH price are read
RefreshPrices(gas) ==
    /\ steps < MaxSteps
    /\ gas_eth' = gas
    /\ rs' = NoCall
    /\ al' = NoCall
    /\ steps' = steps + 1
    /\ UNCHANGED engineVars
    /\ UNCHANGED <<state_history, confirmed_states, block_numbers, alert_history,
                   health_history, ledger, now, thresholds, pollVars>>

\* the ledger after a check_and_alert call: a delivered send is counted, a
\* failed one is remembered until the next call for the key
LedgerAfter(lg, call) ==
    LET old == IF call.key \in DOMAIN lg THEN lg[call.key]
               ELSE [sent |-> 0, failed |-> <<>>]
    IN  Put(lg, call.key,
            [sent |-> old.sent + (IF call.result THEN 1 ELSE 0),
             failed |-> IF call.attempted /\ ~call.result THEN <<call>> ELSE <<>>])

\* the failed call the ledger holds for a key, if any
FailedBefore(lg, key) == IF key \in DOMAIN lg THEN lg[key].failed ELSE <<>>

\* GasAwareAlerter.check_and_alert, called as _process_position calls it
CheckAndAlertCall(chat_id, wallet, protocol, pos, send_ok) ==
    LET user == thresholds[chat_id]
        status == AssessStatus(pos.health_factor, WarningThresholdOf(user),
                               CriticalThresholdOf(user))
        r == CheckAndAlertResult(alert_history, health_history, chat_id, wallet,
                                 protocol, pos, status, gas_eth, send_ok, now)
    IN  /\ alert_history' = r.alert_history
        /\ health_history' = r.health_history
        /\ al' = r.call @@ [failed_before |-> FailedBefore(ledger, r.call.key)]
        /\ ledger' = LedgerAfter(ledger, r.call)
        /\ steps' = steps + 1
        /\ UNCHANGED engineVars
        /\ UNCHANGED <<trackerVars, now, thresholds, gas_eth, pollVars>>

\* check_and_alert within the step bound of the small specifications
CheckAndAlert(chat_id, wallet, protocol, pos, send_ok) ==
    steps < MaxSteps /\ CheckAndAlertCall(chat_id, wallet, protocol, pos, send_ok)

\* mutant: the chat of the key is not looked at
KeysToRemoveAnyChat(ah, chat_id, wallet) ==
    { k \in DOMAIN ah : wallet = <<>> \/ k[2] = wallet[1] }

\* keys_to_remove of clear_alert_history: the key "chat:wallet:protocol" is
\* split at the colons (no modelled address or protocol name holds one)
KeysToRemove(ah, chat_id, wallet) ==
    { k \in DOMAIN ah : /\ k[1] = chat_id
                        /\ (wallet = <<>> \/ k[2] = wallet[1]) }

\* GasAwareAlerter.clear_alert_history(chat_id, wallet_address); the empty
\* sequence is wallet_address=None
ClearAlertHistory(chat_id, wallet) ==
    LET keys_to_remove == KeysToRemove(alert_history, chat_id, wallet)
    IN  /\ steps < MaxSteps
        /\ alert_history' = Drop(alert_history, keys_to_remove)
        /\ al' = [op |-> "clear_alert_history", chat_id |-> chat_id,
                  wallet_address |-> wallet, history_before |-> alert_history]
        /\ ledger' = Drop(ledger, { k \in DOMAIN ledger :
                                      /\ k[1] = chat_id
                                      /\ (wallet = <<>> \/ k[2] = wallet[1]) })
        /\ steps' = steps + 1
        /\ UNCHANGED engineVars
        /\ UNCHANGED <<trackerVars, health_history, now, thresholds, gas_eth, pollVars>>

---------------------------------------------------------------------------
(* SmartPollingManager and MonitoringEngine._process_position *)

\* SmartPollingManager._get_key
PollingKey(wallet, protocol) == <<Lower(wallet), protocol>>

CRITICAL_INTERVAL == 30
MEDIUM_INTERVAL == 120
LOW_INTERVAL == 300
NO_POSITION_INTERVAL == 600

\* mutant: the critical cadence reaches up to and including 1.3
GetPollingIntervalInclusive(health_factor) ==
    IF health_factor = Inf THEN NO_POSITION_INTERVAL
    ELSE IF health_factor <= 1300 THEN CRITICAL_INTERVAL
    ELSE IF health_factor < 2000 THEN MEDIUM_INTERVAL
    ELSE LOW_INTERVAL

\* mutant: the medium cadence reaches up to and including 2.0
GetPollingIntervalMediumInclusive(health_factor) ==
    IF health_factor = Inf THEN NO_POSITION_INTERVAL
    ELSE IF health_factor < 1300 THEN CRITICAL_INTERVAL
    ELSE IF health_factor <= 2000 THEN MEDIUM_INTERVAL
    ELSE LOW_INTERVAL

\* SmartPollingManager.get_polling_interval
GetPollingInterval(health_factor) ==
    IF health_factor = Inf THEN NO_POSITION_INTERVAL
    ELSE IF health_factor < 1300 THEN CRITICAL_INTERVAL
    ELSE IF health_factor < 2000 THEN MEDIUM_INTERVAL
    ELSE LOW_INTERVAL

\* mutant: a pair without a record counts as checked just now
LastCheckOfNow(lc, key) == IF key \in DOMAIN lc THEN lc[key] ELSE now

\* self._last_check.get(key, 0)
LastCheckOf(lc, key) == IF key \in DOMAIN lc THEN lc[key] ELSE 0

\* mutant: a pair without a record counts as liquidatable
LastHfOfZero(hfs, key) == IF key \in DOMAIN hfs THEN hfs[key] ELSE 0

\* self._health_factors.get(key, float("inf"))
LastHfOf(hfs, key) == IF key \in DOMAIN hfs THEN hfs[key] ELSE Inf

\* the interval should_check applies to a pair
IntervalOf(hfs, wallet, protocol) ==
    GetPollingInterval(LastHfOf(hfs, PollingKey(wallet, protocol)))

\* SmartPollingManager.should_check at time t
ShouldCheckAt(lc, hfs, wallet, protocol, t) ==
    t - LastCheckOf(lc, PollingKey(wallet, protocol)) >= IntervalOf(hfs, wallet, protocol)

ShouldCheck(wallet, protocol) ==
    ShouldCheckAt(last_check, health_factors, wallet, protocol, now)

\* health factors given to record_check directly
PollHealthFactors == {500, 1299, 1300, 1999, 2000, Inf}

\* how long the clock may run between two polls
PollTickSteps == {30, 90, 180, 300}

\* SmartPollingManager.record_check
RecordCheck(wallet, protocol, health_factor) ==
    LET key == PollingKey(wallet, protocol)
    IN  /\ steps < MaxSteps
        /\ last_check' = Put(last_check, key, now)
        /\ health_factors' = Put(health_factors, key, health_factor)
        /\ pl' = [op |-> "record_check", path |-> "direct", key |-> key,
                  health_factor |-> health_factor, time |-> now,
                  found |-> TRUE, commit_failed |-> FALSE, recorded |-> TRUE,
                  known_before |-> key \in DOMAIN last_check]
        /\ rs' = NoCall
        /\ al' = NoCall
        /\ steps' = steps + 1
        /\ UNCHANGED engineVars
        /\ UNCHANGED <<state_history, confirmed_states, block_numbers, alert_history,
                       health_history, ledger, now, thresholds, gas_eth, snapshots>>

\* which fetch of _monitor_cycle serves a protocol: the Multicall batch for
\* Aave V3, the adapter loop of _check_compound_positions for Compound V3
FetchPath(protocol) ==
    IF protocol = "Aave V3 (Ethereum)" THEN "aave_batch" ELSE "compound_adapter"

\* Position.wallet_address as the fetch sets it: the batched Aave fetch is
\* keyed by the lower-cased address, a Compound adapter echoes its argument
PositionWallet(wallet, protocol) ==
    IF protocol = "Aave V3 (Ethereum)" THEN Lower(wallet) ELSE wallet

\* one call of _process_position from the cycle's loop over users and wallets;
\* commit_ok is whether session.commit() returns, send_ok whether the send does
ProcessPositionCall(chat_id, wallet, protocol, pos, commit_ok, send_ok) ==
    LET user == thresholds[chat_id]
        status == AssessStatus(pos.health_factor, WarningThresholdOf(user),
                               CriticalThresholdOf(user))
        key == TrackerKey(wallet, protocol)
        block_number == GetBlockNumber(GetChainFromProtocol(protocol))
        r == RecordStateResult(state_history, confirmed_states, key, pos, block_number)
        a == CheckAndAlertResult(alert_history, health_history, chat_id,
                                 PositionWallet(wallet, protocol), protocol, pos,
                                 status, gas_eth, send_ok, now)
    IN  /\ steps' = steps + 1
        /\ UNCHANGED <<cascadeVars, lifeVars, healthVars>>
        /\ UNCHANGED <<block_numbers, now, thresholds, gas_eth>>
        /\ IF ~commit_ok
           THEN /\ rs' = NoCall
                /\ al' = NoCall
                /\ pl' = [op |-> "fetch", path |-> FetchPath(protocol),
                          key |-> PollingKey(wallet, protocol),
                          health_factor |-> pos.health_factor, time |-> now,
                          found |-> TRUE, commit_failed |-> TRUE, recorded |-> FALSE,
                          known_before |->
                              PollingKey(wallet, protocol) \in DOMAIN last_check]
                /\ UNCHANGED <<state_history, confirmed_states, alert_history,
                               health_history, ledger, last_check, health_factors,
                               snapshots>>
           ELSE /\ snapshots' = snapshots \cup
                      {[wallet |-> wallet, protocol |-> protocol,
                        health_factor |-> pos.health_factor,
                        total_collateral_usd |-> pos.total_collateral_usd,
                        total_debt_usd |-> pos.total_debt_usd]}
                /\ last_check' = Put(last_check, PollingKey(wallet, protocol), now)
                /\ health_factors' = Put(health_factors, PollingKey(wallet, protocol),
                                         pos.health_factor)
                /\ pl' = [op |-> "fetch", path |-> FetchPath(protocol),
                          key |-> PollingKey(wallet, protocol),
                          health_factor |-> pos.health_factor, time |-> now,
                          found |-> TRUE, commit_failed |-> FALSE, recorded |-> TRUE,
                          known_before |->
                              PollingKey(wallet, protocol) \in DOMAIN last_check]
                /\ state_history' = r.history
                /\ confirmed_states' = r.confirmed
                /\ rs' = [op |-> "record_state", key |-> key, pos |-> pos,
                          block_number |-> block_number,
                          history_before |-> IF key \in DOMAIN state_history
                                             THEN state_history[key] ELSE <<>>,
                          previous_confirmed |-> Get(confirmed_states, key),
                          is_new |-> r.is_new, state |-> r.state,
                          did_confirm |-> r.did_confirm]
                /\ IF r.state = <<>>
                   THEN /\ al' = NoCall
                        /\ UNCHANGED <<alert_history, health_history, ledger>>
                   ELSE /\ alert_history' = a.alert_history
                        /\ health_history' = a.health_history
                        /\ al' = a.call @@
                                 [failed_before |-> FailedBefore(ledger, a.call.key)]
                        /\ ledger' = LedgerAfter(ledger, a.call)

\* _process_position within the step bound of the small specifications
ProcessPosition(chat_id, wallet, protocol, pos, commit_ok, send_ok) ==
    /\ steps < MaxEngineSteps
    /\ ProcessPositionCall(chat_id, wallet, protocol, pos, commit_ok, send_ok)

\* positions the polled fetches return
PollPositions ==
    { [health_factor |-> 1000, total_collateral_usd |-> 10000, total_debt_usd |-> 8000],
      [health_factor |-> Inf,  total_collateral_usd |-> 10000, total_debt_usd |-> 0] }

PollChats == {11}

\* _monitor_cycle, batched Aave path, for a wallet get_wallets_to_check
\* selected and whose batch result holds a position
MonitorAavePosition(chat_id, wallet, pos, commit_ok, send_ok) ==
    /\ ShouldCheck(Lower(wallet), "Aave V3 (Ethereum)")
    /\ ProcessPosition(chat_id, wallet, "Aave V3 (Ethereum)", pos, commit_ok, send_ok)
    /\ UNCHANGED cycleVars

\* _monitor_cycle, batched Aave path, for a selected wallet whose batch
\* result is None (no collateral and no debt): `if position:` skips it
MonitorAaveNoPosition(wallet) ==
    LET key == PollingKey(Lower(wallet), "Aave V3 (Ethereum)")
    IN  /\ steps < MaxSteps
        /\ ShouldCheck(Lower(wallet), "Aave V3 (Ethereum)")
        /\ pl' = [op |-> "fetch", path |-> "aave_batch", key |-> key,
                  health_factor |-> Inf, time |-> now,
                  found |-> FALSE, commit_failed |-> FALSE, recorded |-> FALSE,
                  known_before |-> key \in DOMAIN last_check]
        /\ rs' = NoCall
        /\ al' = NoCall
        /\ steps' = steps + 1
        /\ UNCHANGED engineVars
        /\ UNCHANGED <<state_history, confirmed_states, block_numbers, alert_history,
                       health_history, ledger, now, thresholds, gas_eth, last_check,
                       health_factors, snapshots>>

\* one adapter of _check_compound_positions; position is what get_position
\* returned, the empty sequence for None
CheckCompoundPositions(chat_id, wallet, position, commit_ok, send_ok) ==
    LET key == PollingKey(wallet, "Compound V3 (Ethereum)")
    IN  /\ ShouldCheck(wallet, "Compound V3 (Ethereum)")
        /\ IF position # <<>>
           THEN /\ ProcessPosition(chat_id, wallet, "Compound V3 (Ethereum)",
                                   position[1], commit_ok, send_ok)
                /\ UNCHANGED cycleVars
           ELSE /\ steps < MaxSteps
                /\ last_check' = Put(last_check, key, now)
                /\ health_factors' = Put(health_factors, key, Inf)
                /\ pl' = [op |-> "fetch", path |-> "compound_adapter", key |-> key,
                          health_factor |-> Inf, time |-> now,
                          found |-> FALSE, commit_failed |-> FALSE, recorded |-> TRUE,
                          known_before |-> key \in DOMAIN last_check]
                /\ rs' = NoCall
                /\ al' = NoCall
                /\ steps' = steps + 1
                /\ UNCHANGED engineVars
                /\ UNCHANGED <<state_history, confirmed_states, block_numbers,
                               alert_history, health_history, ledger, now,
                               thresholds, gas_eth, snapshots>>

\* ---------------------------------------------------------------------
\* LiquidationCascadeDetector (src/app/core/cascade.py)
\* ---------------------------------------------------------------------

WARNING_COUNT == 5
WARNING_VALUE_USD == 1000000
CRITICAL_COUNT == 10
CRITICAL_VALUE_USD == 5000000
SEVERE_COUNT == 20
SEVERE_VALUE_USD == 10000000
TIME_WINDOW_MINUTES == 60
ALERT_COOLDOWN_MINUTES == 30
BLOCKS_PER_HOUR == 300
MAX_BLOCK_RANGE == 1000

\* the keys of LIQUIDATION_EVENTS the runs check, in the dict's order
CascadeProtocols == {"Aave V2", "Aave V3"}
CascadeOrder == <<"Aave V2", "Aave V3">>

\* the block the chain is at when the detector is constructed
StartBlock == 5000

\* how one _check_protocol call goes: no error, web3.eth.block_number
\* raises, or web3.eth.get_logs raises
CheckOutcomes == {"ok", "block_number_error", "get_logs_error"}

\* the liquidation logs one block carries for a protocol: how many, and the
\* byte length of each log's data field
Batches ==
    { [count |-> 0, data_len |-> 0],
      [count |-> 5, data_len |-> 128],
      [count |-> 10, data_len |-> 128] }

\* batches that bring the window to either side of each threshold
DetectBatches ==
    { [count |-> 4, data_len |-> 128],
      [count |-> 5, data_len |-> 128],
      [count |-> 10, data_len |-> 128],
      [count |-> 1, data_len |-> 9999],
      [count |-> 1, data_len |-> 10000],
      [count |-> 1, data_len |-> 40000],
      [count |-> 1, data_len |-> 50000] }

CascadeTickSteps == {900, 2700}

RECURSIVE SumDebt(_)
\* sum(e.debt_covered_usd for e in events)
SumDebt(events) ==
    IF events = <<>> THEN 0
    ELSE Head(events).debt_covered_usd + SumDebt(Tail(events))

\* mutant: the value thresholds are tested before the counts, smallest first
CascadeSeverityValueFirst(count, total_value) ==
    IF total_value >= WARNING_VALUE_USD /\ total_value < CRITICAL_VALUE_USD
    THEN <<"warning">>
    ELSE IF count >= SEVERE_COUNT \/ total_value >= SEVERE_VALUE_USD THEN <<"severe">>
    ELSE IF count >= CRITICAL_COUNT \/ total_value >= CRITICAL_VALUE_USD
    THEN <<"critical">>
    ELSE IF count >= WARNING_COUNT \/ total_value >= WARNING_VALUE_USD
    THEN <<"warning">>
    ELSE <<>>

\* _detect_cascade: the severity of a window, the empty sequence for None
CascadeSeverity(count, total_value) ==
    IF count >= SEVERE_COUNT \/ total_value >= SEVERE_VALUE_USD THEN <<"severe">>
    ELSE IF count >= CRITICAL_COUNT \/ total_value >= CRITICAL_VALUE_USD
    THEN <<"critical">>
    ELSE IF count >= WARNING_COUNT \/ total_value >= WARNING_VALUE_USD
    THEN <<"warning">>
    ELSE <<>>

\* mutant: one cooldown shared by all protocols
CooldownKeyShared(protocol) == "Aave V2"

\* _detect_cascade: the key of _alert_history a protocol's cooldown is kept under
CooldownKey(protocol) == protocol

\* _detect_cascade: `last_alert and utcnow() - last_alert < self._alert_cooldown`
InCooldown(history, protocol, t) ==
    /\ CooldownKey(protocol) \in DOMAIN history
    /\ t - history[CooldownKey(protocol)] < ALERT_COOLDOWN_MINUTES * 60

\* _detect_cascade on a protocol's window at time t: the alert returned (the
\* empty sequence for None) and _alert_history afterwards
DetectCascade(events, history, protocol, t) ==
    LET count == Len(events)
        total_value == SumDebt(events)
        severity == CascadeSeverity(count, total_value)
    IN  IF events = <<>> \/ severity = <<>> \/ InCooldown(history, protocol, t)
        THEN [alert |-> <<>>, history |-> history]
        ELSE [alert |-> <<[protocol |-> protocol, liquidation_count |-> count,
                           total_value_usd |-> total_value,
                           time_window_minutes |-> TIME_WINDOW_MINUTES,
                           severity |-> severity[1]]>>,
              history |-> Put(history, CooldownKey(protocol), t)]

\* _fetch_liquidation_events: the first block of the range asked of get_logs
FetchFromBlock(from_block, to_block) ==
    IF to_block - from_block > MAX_BLOCK_RANGE
    THEN to_block - MAX_BLOCK_RANGE ELSE from_block

\* _fetch_liquidation_events: the logs get_logs returns, fromBlock and
\* toBlock both inclusive; [] when get_logs raises
FetchLiquidationEvents(logs, from_block, to_block, outcome) ==
    IF outcome = "get_logs_error" THEN <<>>
    ELSE SelectSeq(logs, LAMBDA l :
             /\ l.block_number >= FetchFromBlock(from_block, to_block)
             /\ l.block_number <= to_block)

RECURSIVE ParseLiquidationEvents(_, _)
\* _parse_liquidation_event over the fetched logs: the value is estimated
\* from the length of the data field, the timestamp is the time of parsing
ParseLiquidationEvents(logs, t) ==
    IF logs = <<>> THEN <<>>
    ELSE <<[block_number |-> Head(logs).block_number,
            log_index |-> Head(logs).log_index,
            debt_covered_usd |-> Head(logs).data_len * 100,
            timestamp |-> t]>> \o ParseLiquidationEvents(Tail(logs), t)

\* _cleanup_old_events
CleanupOldEvents(events, t) ==
    SelectSeq(events, LAMBDA e : e.timestamp >= t - TIME_WINDOW_MINUTES * 60)

\* _check_protocol: what one call does to the protocol's state, and its result
CheckProtocolResult(protocol, outcome) ==
    LET current_block == eth_block_number
        start_block == IF protocol \in DOMAIN last_checked_block
                       THEN last_checked_block[protocol]
                       ELSE current_block - BLOCKS_PER_HOUR
        fetched == FetchLiquidationEvents(eth_logs[protocol], start_block,
                                          current_block, outcome)
        window == CleanupOldEvents(
                      recent_liquidations[protocol] \o
                          ParseLiquidationEvents(fetched, now), now)
        d == DetectCascade(window, cascade_alert_history, protocol, now)
    IN  IF outcome = "block_number_error" \/ current_block <= start_block
        THEN [detected |-> FALSE, window |-> recent_liquidations[protocol],
              last_checked |-> Get(last_checked_block, protocol),
              alert |-> <<>>, stamped |-> FALSE, fetched |-> <<>>]
        ELSE [detected |-> TRUE, window |-> window,
              last_checked |-> <<current_block>>,
              alert |-> d.alert, stamped |-> d.alert # <<>>, fetched |-> fetched]

\* mutant: an error in one protocol ends the loop over the protocols
ProtocolsReachedUntilError(outcome) ==
    IF outcome[CascadeOrder[1]] = "ok" THEN CascadeProtocols ELSE {CascadeOrder[1]}

\* check_for_cascades: the protocols whose _check_protocol is called; each
\* call is inside its own try/except
ProtocolsReached(outcome) == CascadeProtocols

\* a block is mined that carries a batch of liquidation logs of one protocol
MineBlock(protocol, batch) ==
    /\ eth_block_number' = eth_block_number + 1
    /\ eth_logs' = [eth_logs EXCEPT ![protocol] =
                       @ \o [i \in 1..batch.count |->
                                [block_number |-> eth_block_number + 1,
                                 log_index |-> i, data_len |-> batch.data_len]]]
    /\ steps' = steps + 1
    /\ UNCHANGED <<trackerVars, alerterVars, pollVars, now, thresholds, gas_eth,
                   recent_liquidations, last_checked_block, cascade_alert_history,
                   cd, cascade_returned, cycleVars, lifeVars, healthVars>>

\* check_for_cascades: every protocol of LIQUIDATION_EVENTS is checked in
\* turn; outcome says how each protocol's RPC calls go
CheckForCascades(outcome) ==
    LET reached == ProtocolsReached(outcome)
        res == [p \in CascadeProtocols |-> CheckProtocolResult(p, outcome[p])]
        alerts == {p \in reached : res[p].alert # <<>>}
    IN  /\ recent_liquidations' =
               [p \in CascadeProtocols |->
                   IF p \in reached THEN res[p].window ELSE recent_liquidations[p]]
        /\ last_checked_block' =
               [p \in {q \in CascadeProtocols :
                          \/ q \in reached /\ res[q].last_checked # <<>>
                          \/ q \notin reached /\ q \in DOMAIN last_checked_block} |->
                   IF p \in reached THEN res[p].last_checked[1]
                   ELSE last_checked_block[p]]
        /\ cascade_alert_history' =
               [k \in DOMAIN cascade_alert_history \cup
                      {CooldownKey(p) : p \in alerts} |->
                   IF \E p \in alerts : CooldownKey(p) = k THEN now
                   ELSE cascade_alert_history[k]]
        /\ cd' = [op |-> "check_for_cascades", time |-> now, outcome |-> outcome,
                  alerts |-> [p \in CascadeProtocols |->
                                 IF p \in reached THEN res[p].alert ELSE <<>>],
                  detected |-> [p \in CascadeProtocols |->
                                   p \in reached /\ res[p].detected],
                  fetched |-> [p \in CascadeProtocols |->
                                  IF p \in reached THEN res[p].fetched ELSE <<>>],
                  window_before |-> recent_liquidations,
                  returned_before |-> cascade_returned,
                  last_checked_before |-> last_checked_block,
                  block_number |-> eth_block_number]
        /\ cascade_returned' = cascade_returned \cup
               {[protocol |-> p, time |-> now, severity |-> res[p].alert[1].severity] :
                   p \in alerts}
        /\ steps' = steps + 1
        /\ UNCHANGED <<trackerVars, alerterVars, pollVars, now, thresholds, gas_eth,
                       eth_block_number, eth_logs, cycleVars, lifeVars, healthVars>>


\* ---------------------------------------------------------------------
\* MonitoringEngine._monitor_cycle (src/app/core/engine.py)
\* ---------------------------------------------------------------------

CASCADE_CHECK_INTERVAL == 5

MaxCycles == 5

\* the User rows in the order the query returns them, and their Wallet rows
UserOrder == <<11, 22>>
UserWallets == [c \in Chats |-> IF c = 11 THEN <<"0xAB">> ELSE <<"0xCD">>]

\* two users who track the same address
SharedWallets == [c \in Chats |-> <<"0xAB">>]

\* the positions the fetches of a cycle return
CyclePositions ==
    { [health_factor |-> 1000, total_collateral_usd |-> 10000, total_debt_usd |-> 8000] }

\* what check_for_cascades returned to a cycle: the protocols alerted for
CycleCascadeChoices == { <<>>, <<"Aave V3">> }

\* pause_command / resume_command of the bot
SetAlertsPaused(chat_id, paused) ==
    /\ alerts_paused[chat_id] # paused
    /\ alerts_paused' = [alerts_paused EXCEPT ![chat_id] = paused]
    /\ UNCHANGED <<trackerVars, alerterVars, pollVars, cascadeVars, lifeVars, healthVars, now,
                   thresholds, gas_eth, steps, cycle_count, cy>>

\* mutant: the processing loop takes every user
SkipsUserNever(user) == FALSE

\* _monitor_cycle: `if user.alerts_paused: continue`
SkipsUser(user) == user.alerts_paused

RECURSIVE WalletItems(_, _)
\* the loop over user.wallets: per wallet the batch-fetched Aave position,
\* then _check_compound_positions
WalletItems(chat_id, wallets) ==
    IF wallets = <<>> THEN <<>>
    ELSE << [kind |-> "aave", chat_id |-> chat_id, wallet |-> Head(wallets)],
            [kind |-> "compound", chat_id |-> chat_id, wallet |-> Head(wallets)] >>
         \o WalletItems(chat_id, Tail(wallets))

RECURSIVE CyclePlan(_, _)
\* the loop over the loaded users: the wallets of each user that is not
\* skipped, then `if cascade_alerts: _send_cascade_alerts(user.chat_id, ...)`
CyclePlan(users, cascade_alerts) ==
    IF users = <<>> THEN <<>>
    ELSE (IF SkipsUser(Head(users)) THEN <<>>
          ELSE WalletItems(Head(users).chat_id, Head(users).wallets) \o
               (IF cascade_alerts # <<>>
                THEN <<[kind |-> "cascade", chat_id |-> Head(users).chat_id,
                        wallet |-> ""]>>
                ELSE <<>>))
         \o CyclePlan(Tail(users), cascade_alerts)

\* get_wallets_to_check for the Aave batch, before the loop over the users:
\* the lower-cased addresses of the users not skipped whose Aave pair is due
AaveDue(users) ==
    UNION { { Lower(users[u].wallets[w]) :
                w \in {y \in 1..Len(users[u].wallets) :
                          ShouldCheck(Lower(users[u].wallets[y]),
                                      "Aave V3 (Ethereum)")} } :
            u \in {x \in 1..Len(users) : ~SkipsUser(users[x])} }

\* the beginning of _monitor_cycle up to the loop over the users: the cycle
\* is counted, every fifth cycle asks the cascade detector (detected is what
\* it returned), and the users are loaded with their wallets
BeginCycleWith(user_wallets, detected) ==
    LET cascade_alerts == IF (cycle_count + 1) % CASCADE_CHECK_INTERVAL = 0
                          THEN detected ELSE <<>>
        users == [i \in 1..Len(UserOrder) |->
                     [chat_id |-> UserOrder[i],
                      alerts_paused |-> alerts_paused[UserOrder[i]],
                      wallets |-> user_wallets[UserOrder[i]]]]
    IN  /\ cy.op = "idle"
        /\ cycle_count < MaxCycles
        /\ cycle_count' = cycle_count + 1
        /\ cy' = [op |-> "cycle", users |-> users,
                  plan |-> CyclePlan(users, cascade_alerts),
                  todo |-> CyclePlan(users, cascade_alerts),
                  cascade_alerts |-> cascade_alerts, done |-> <<>>,
                  aborted |-> FALSE,
                  aave_due |-> AaveDue(users), aave_positions |-> <<>>]
        /\ UNCHANGED <<trackerVars, alerterVars, pollVars, cascadeVars, lifeVars, healthVars, now,
                       thresholds, gas_eth, steps, alerts_paused>>

\* _monitor_cycle with the users' wallets as the database holds them
BeginCycle(detected) == BeginCycleWith(UserWallets, detected)

\* _monitor_cycle when both users track the same address; no cascade check
BeginSharedCycle == BeginCycleWith(SharedWallets, <<>>)

\* the protocol and the address a position item is fetched under
ItemProtocol(item) ==
    IF item.kind = "aave" THEN "Aave V3 (Ethereum)" ELSE "Compound V3 (Ethereum)"
ItemAddress(item) ==
    IF item.kind = "aave" THEN Lower(item.wallet) ELSE item.wallet

\* what the Aave batch may hold for an address: a position or None
\* (the empty sequence); None too when the batch call raised or the address
\* was not due.  The batch is fetched before the loop over the users;
\* cy.aave_positions holds its entries the loop has read so far, and an
\* entry is chosen when the loop first reads it
BatchEntries(address) ==
    IF address \notin cy.aave_due THEN {<<>>}
    ELSE IF address \in DOMAIN cy.aave_positions
         THEN {cy.aave_positions[address]}
         ELSE {<<>>} \cup {<<p>> : p \in CyclePositions}

\* the positions the cycle may have for an item: the one of the Aave batch,
\* if any; for Compound whatever the adapter returns, provided should_check
\* says the pair is due when _check_compound_positions comes to the wallet
ItemPositions(item) ==
    IF item.kind = "aave"
    THEN {e[1] : e \in BatchEntries(ItemAddress(item)) \ {<<>>}}
    ELSE (IF ShouldCheck(ItemAddress(item), ItemProtocol(item))
          THEN CyclePositions ELSE {})

\* whether the item may come without a position: the batch may hold None
\* for the address; a Compound pair is not due, or its adapter returns None
ItemMayLack(item) ==
    item.kind = "aave" => <<>> \in BatchEntries(ItemAddress(item))

\* cy.aave_positions after the loop has read the entry of an Aave item
BatchRead(item, entry) ==
    IF item.kind = "aave" /\ ItemAddress(item) \in cy.aave_due
    THEN Put(cy.aave_positions, ItemAddress(item), entry)
    ELSE cy.aave_positions

\* the next position of the cycle was fetched and goes to _process_position.
\* When session.commit() raises, nothing rolls the session back: reading
\* wallet.address for the log line of the except clause either works
\* (readable) or raises in its turn, and then the exception leaves
\* _monitor_cycle
CycleProcessPosition(pos, commit_ok, send_ok, readable) ==
    /\ cy.op = "cycle" /\ cy.todo # <<>>
    /\ Head(cy.todo).kind \in {"aave", "compound"}
    /\ LET item == Head(cy.todo)
       IN  /\ pos \in ItemPositions(item)
           /\ ProcessPosition(item.chat_id, item.wallet, ItemProtocol(item), pos,
                              commit_ok, send_ok)
           /\ cy' = IF ~commit_ok /\ ~readable
                    THEN [cy EXCEPT !.todo = <<>>, !.aborted = TRUE,
                                    !.aave_positions = BatchRead(item, <<pos>>),
                                    !.done = Append(@, [item |-> item,
                                                        outcome |-> "raised"])]
                    ELSE [cy EXCEPT !.todo = Tail(@),
                                    !.aave_positions = BatchRead(item, <<pos>>),
                                    !.done = Append(@,
                                        [item |-> item,
                                         outcome |->
                                             IF ~commit_ok THEN "caught"
                                             ELSE IF al'.op = "check_and_alert"
                                                     /\ al'.attempted
                                                  THEN "alerted"
                                                  ELSE "processed"])]
           /\ UNCHANGED <<alerts_paused, cycle_count>>

\* the next position of the cycle is not due, or its fetch found nothing: the
\* Aave path moves on, _check_compound_positions records the check with inf
CycleNoPosition ==
    /\ cy.op = "cycle" /\ cy.todo # <<>>
    /\ Head(cy.todo).kind \in {"aave", "compound"}
    /\ LET item == Head(cy.todo)
           key == PollingKey(item.wallet, "Compound V3 (Ethereum)")
           due == ShouldCheck(ItemAddress(item), ItemProtocol(item))
       IN  /\ ItemMayLack(item)
           /\ IF item.kind = "compound" /\ due
              THEN /\ last_check' = Put(last_check, key, now)
                   /\ health_factors' = Put(health_factors, key, Inf)
              ELSE UNCHANGED <<last_check, health_factors>>
           /\ cy' = [cy EXCEPT !.todo = Tail(@),
                               !.aave_positions = BatchRead(item, <<>>),
                               !.done = Append(@, [item |-> item,
                                                   outcome |-> "none"])]
    /\ UNCHANGED <<trackerVars, alerterVars, snapshots, pl, cascadeVars, lifeVars, healthVars, now,
                   thresholds, gas_eth, steps, alerts_paused, cycle_count>>

\* _send_cascade_alerts for the user the loop is at; a failed send is caught
CycleSendCascadeAlerts(send_ok) ==
    /\ cy.op = "cycle" /\ cy.todo # <<>>
    /\ Head(cy.todo).kind = "cascade"
    /\ cy' = [cy EXCEPT !.todo = Tail(@),
                        !.done = Append(@, [item |-> Head(cy.todo),
                                            outcome |-> IF send_ok THEN "sent"
                                                        ELSE "send_failed"])]
    /\ UNCHANGED <<trackerVars, alerterVars, pollVars, cascadeVars, lifeVars, healthVars, now,
                   thresholds, gas_eth, steps, alerts_paused, cycle_count>>

\* _monitor_cycle returns, or the exception that left it is logged by start()
EndCycle ==
    /\ cy.op = "cycle" /\ cy.todo = <<>>
    /\ cy' = [cy EXCEPT !.op = "idle"]
    /\ UNCHANGED <<trackerVars, alerterVars, pollVars, cascadeVars, lifeVars, healthVars, now,
                   thresholds, gas_eth, steps, alerts_paused, cycle_count>>

\* ---------------------------------------------------------------------
\* MonitoringEngine.start / stop
\* ---------------------------------------------------------------------

LoopIds == {1, 2}

MaxLoopCycles == 3

\* start() is called: run_monitoring_engine awaits it inside a task, which
\* runs its first statement only when the event loop reaches it
StartCall(l) ==
    /\ loop_pc[l] = "none"
    /\ loop_pc' = [loop_pc EXCEPT ![l] = "called"]
    /\ stop_called' = FALSE
    /\ UNCHANGED <<trackerVars, alerterVars, pollVars, cascadeVars, healthVars, cycleVars, now,
                   thresholds, gas_eth, steps, running>>

\* start: `self._running = True`
StartEnter(l) ==
    /\ loop_pc[l] = "called"
    /\ running' = TRUE
    /\ loop_pc' = [loop_pc EXCEPT ![l] = "test"]
    /\ UNCHANGED <<trackerVars, alerterVars, pollVars, cascadeVars, healthVars, cycleVars, now,
                   thresholds, gas_eth, steps, stop_called>>

\* start: `while self._running:` is tested; a cycle begins (and counts
\* itself) or start() returns
LoopTest(l) ==
    /\ loop_pc[l] = "test"
    /\ IF running
       THEN /\ cycle_count < MaxLoopCycles
            /\ cycle_count' = cycle_count + 1
            /\ loop_pc' = [loop_pc EXCEPT ![l] = "cycle"]
       ELSE /\ loop_pc' = [loop_pc EXCEPT ![l] = "returned"]
            /\ UNCHANGED cycle_count
    /\ UNCHANGED <<trackerVars, alerterVars, pollVars, cascadeVars, healthVars, now, thresholds,
                   gas_eth, steps, alerts_paused, cy, running, stop_called>>

\* start: _monitor_cycle returns, or raises and the exception is logged
CycleEnd(l) ==
    /\ loop_pc[l] = "cycle"
    /\ loop_pc' = [loop_pc EXCEPT ![l] = "sleep"]
    /\ UNCHANGED <<trackerVars, alerterVars, pollVars, cascadeVars, healthVars, cycleVars, now,
                   thresholds, gas_eth, steps, running, stop_called>>

\* start: asyncio.sleep(monitoring_interval_seconds) is over
SleepEnd(l) ==
    /\ loop_pc[l] = "sleep"
    /\ loop_pc' = [loop_pc EXCEPT ![l] = "test"]
    /\ UNCHANGED <<trackerVars, alerterVars, pollVars, cascadeVars, healthVars, cycleVars, now,
                   thresholds, gas_eth, steps, running, stop_called>>

\* stop: `self._running = False`
Stop ==
    /\ running' = FALSE
    /\ stop_called' = TRUE
    /\ UNCHANGED <<trackerVars, alerterVars, pollVars, cascadeVars, healthVars, cycleVars, now,
                   thresholds, gas_eth, steps, loop_pc>>


\* ---------------------------------------------------------------------
\* assess_health, calculate_normalized_score, calculate_unified_health_score
\* (src/app/core/health.py)
\* ---------------------------------------------------------------------

\* health factors in thousandths, as everywhere; scores in ten-thousandths
\* of a point (80.0 is 800000), amounts in cents
SCORE_MAX == 1000000
SCORE_AT_TWO == 800000

\* the positions handed to the health functions: any health factor with
\* any debt, as the adapters and the tests build them (the Morpho Aave
\* adapter reports the real health factor with total_debt_usd = 0.0)
HealthFactors ==
    {900, 1000, 1001, 1050, 1100, 1101, 1200, 1500, 1501, 2000, 2001, 3000,
     10000, 10001, Inf}
HealthDebts == {0, 5000}
HealthPositions ==
    [health_factor : HealthFactors, total_collateral_usd : {10000},
     total_debt_usd : HealthDebts, liquidation_threshold : {800}]

\* how many calls of the health functions one run makes
MaxHealthSteps == 1

\* threshold pairs, in order and inverted
HealthWarningThresholds == {1100, 1500, 2000}
HealthCriticalThresholds == {1100, 1500}

\* mutant: the lower segment rises to 100 at hf = 2.0
CalculateNormalizedScoreSteep(health_factor) ==
    IF health_factor = Inf \/ health_factor > 10000 THEN SCORE_MAX
    ELSE IF health_factor <= 1000 THEN 0
    ELSE IF health_factor <= 2000 THEN (health_factor - 1000) * 1000
    ELSE SCORE_AT_TWO + (health_factor - 2000) * 25

\* calculate_normalized_score: (hf - 1.0) * 80.0 up to 2.0, then
\* 80.0 + ((hf - 2.0) / 8.0) * 20.0
CalculateNormalizedScore(health_factor) ==
    IF health_factor = Inf \/ health_factor > 10000 THEN SCORE_MAX
    ELSE IF health_factor <= 1000 THEN 0
    ELSE IF health_factor <= 2000 THEN (health_factor - 1000) * 800
    ELSE SCORE_AT_TWO + (health_factor - 2000) * 25

\* calculate_repayment_for_target_hf, in cents (rounded down to the cent)
CalculateRepaymentForTargetHf(position, target_hf) ==
    IF position.total_debt_usd = 0 \/ position.health_factor >= target_hf THEN 0
    ELSE Max(0, position.total_debt_usd * 100 -
                (position.total_collateral_usd * position.liquidation_threshold
                 * 100) \div target_hf)

\* calculate_deposit_for_target_hf, in cents (rounded down to the cent)
CalculateDepositForTargetHf(position, target_hf) ==
    IF position.total_debt_usd = 0 \/ position.health_factor >= target_hf THEN 0
    ELSE Max(0, (target_hf * position.total_debt_usd * 100)
                \div position.liquidation_threshold
                - position.total_collateral_usd * 100)

\* mutant: the warning band is tested before the critical one
AssessBranchWarningFirst(hf, warning_threshold, critical_threshold) ==
    IF hf <= 1000 THEN LIQUIDATABLE
    ELSE IF hf <= warning_threshold THEN WARNING
    ELSE IF hf <= critical_threshold THEN CRITICAL
    ELSE HEALTHY

\* assess_health: the branch taken
AssessBranch(hf, warning_threshold, critical_threshold) ==
    AssessStatus(hf, warning_threshold, critical_threshold)

\* assess_health: the recommendations of the branch taken
AssessRecommendations(position, status) ==
    IF status \in {LIQUIDATABLE, CRITICAL}
    THEN << [action_type |-> "repay", priority |-> 1,
             amount_usd |-> CalculateRepaymentForTargetHf(position, 1500)],
            [action_type |-> "deposit", priority |-> 2,
             amount_usd |-> CalculateDepositForTargetHf(position, 1500)] >>
    ELSE IF status = WARNING /\ CalculateDepositForTargetHf(position, 2000) > 0
    THEN << [action_type |-> "deposit", priority |-> 1,
             amount_usd |-> CalculateDepositForTargetHf(position, 2000)] >>
    ELSE <<>>

\* assess_health(position, warning_threshold, critical_threshold)
AssessHealth(position, warning_threshold, critical_threshold) ==
    LET status == AssessBranch(position.health_factor, warning_threshold,
                               critical_threshold)
    IN  /\ steps < MaxHealthSteps
        /\ ha' = [op |-> "assess_health", position |-> position,
                  warning_threshold |-> warning_threshold,
                  critical_threshold |-> critical_threshold,
                  status |-> status,
                  health_factor |-> position.health_factor,
                  normalized_score |->
                      CalculateNormalizedScore(position.health_factor),
                  recommendations |-> AssessRecommendations(position, status)]
        /\ uh' = NoCall
        /\ steps' = steps + 1
        /\ UNCHANGED <<trackerVars, alerterVars, pollVars, cascadeVars, cycleVars,
                       lifeVars, now, thresholds, gas_eth>>


\* the positions of the portfolios handed to calculate_unified_health_score
UnifiedPositions ==
    [protocol : {"Aave V3 (Ethereum)", "Compound V3 (Ethereum)"},
     health_factor : {1000, 1050, 1200, 1600, 3000, Inf},
     total_collateral_usd : {10000},
     total_debt_usd : {0, 1000, 5000}]

MaxPortfolio == 2

Portfolios ==
    UNION { [1..n -> UnifiedPositions] : n \in 0..MaxPortfolio }

RECURSIVE WorstFrom(_, _, _)
\* the loop of calculate_unified_health_score over the positions: min_hf and
\* worst_position, updated by positions with debt when hf < min_hf;
\* acc is <<min_hf, worst_position>>, worst_position <<>> for None
WorstFrom(positions, i, acc) ==
    IF i > Len(positions) THEN acc
    ELSE WorstFrom(positions, i + 1,
             IF positions[i].total_debt_usd > 0 /\ positions[i].health_factor < acc[1]
             THEN <<positions[i].health_factor, <<positions[i]>> >>
             ELSE acc)

RECURSIVE WeightedFrom(_, _, _)
\* the same loop: weighted_hf_sum and weight_sum over the positions with
\* debt and a finite health factor; acc is <<weighted_hf_sum, weight_sum>>
WeightedFrom(positions, i, acc) ==
    IF i > Len(positions) THEN acc
    ELSE WeightedFrom(positions, i + 1,
             IF positions[i].total_debt_usd > 0 /\ positions[i].health_factor # Inf
             THEN <<acc[1] + positions[i].health_factor * positions[i].total_debt_usd,
                    acc[2] + positions[i].total_debt_usd>>
             ELSE acc)

RECURSIVE SumField(_, _)
SumField(positions, f) ==
    IF positions = <<>> THEN 0
    ELSE Head(positions)[f] + SumField(Tail(positions), f)

\* mutant: the status and the score follow the debt-weighted average
DrivingHfWeighted(min_hf, weighted_hf) == weighted_hf

\* calculate_unified_health_score: the health factor the status and the
\* score are taken from
DrivingHf(min_hf, weighted_hf) == min_hf

\* calculate_unified_health_score(positions); the weighted average is
\* rounded down to the thousandth
UnifiedHealthScore(positions) ==
    LET worst == WorstFrom(positions, 1, <<Inf, <<>> >>)
        w == WeightedFrom(positions, 1, <<0, 0>>)
        weighted_hf == IF w[2] > 0 THEN w[1] \div w[2] ELSE Inf
        hf == DrivingHf(worst[1], weighted_hf)
    IN  IF positions = <<>>
        THEN [overall_score |-> SCORE_MAX, overall_status |-> HEALTHY,
              total_collateral_usd |-> 0, total_debt_usd |-> 0,
              weighted_health_factor |-> Inf, worst_position |-> <<>>]
        ELSE [overall_score |-> CalculateNormalizedScore(hf),
              overall_status |-> IF hf <= 1000 THEN LIQUIDATABLE
                                 ELSE IF hf <= 1100 THEN CRITICAL
                                 ELSE IF hf <= 1500 THEN WARNING
                                 ELSE HEALTHY,
              total_collateral_usd |-> SumField(positions, "total_collateral_usd"),
              total_debt_usd |-> SumField(positions, "total_debt_usd"),
              weighted_health_factor |-> weighted_hf,
              worst_position |-> worst[2]]

\* a call of calculate_unified_health_score
CalculateUnifiedHealthScore(positions) ==
    /\ steps < MaxHealthSteps
    /\ uh' = [op |-> "calculate_unified_health_score", positions |-> positions,
              result |-> UnifiedHealthScore(positions)]
    /\ ha' = NoCall
    /\ steps' = steps + 1
    /\ UNCHANGED <<trackerVars, alerterVars, pollVars, cascadeVars, cycleVars,
                   lifeVars, now, thresholds, gas_eth>>


---------------------------------------------------------------------------
(* One position watched cycle after cycle *)

\* number of monitoring cycles followed
MaxObserveCycles == 12

\* health factors of a position that loses a little over 2% of its health
\* factor from one level to the next, all of them below 1.3
ObserveLevels == <<1290, 1260, 1230, 1200, 1170, 1140, 1110, 1080, 1050, 1020>>

\* the position at a level: collateral 10000 at liquidation threshold 0.8
ObservePosition(i) ==
    [health_factor |-> ObserveLevels[i], total_collateral_usd |-> 10000,
     total_debt_usd |-> 8000000 \div ObserveLevels[i]]

\* the level of the last observation recorded for the key, 0 before the first
LastLevel(key) ==
    IF key \notin DOMAIN state_history THEN 0
    ELSE LET last == state_history[key][Len(state_history[key])]
         IN  CHOOSE i \in 1..Len(ObserveLevels) :
                 ObserveLevels[i] = last.health_factor

\* what the next fetch may return: the highest or the lowest level at first,
\* then the same level again or the next one down, the lowest level being
\* followed by a top-up to the highest
NextLevels(key) ==
    IF LastLevel(key) = 0 THEN {1, Len(ObserveLevels)}
    ELSE {LastLevel(key), (LastLevel(key) % Len(ObserveLevels)) + 1}

\* Settings.monitoring_interval_seconds, seconds
MONITORING_INTERVAL == 60

\* the loop's sleep between two cycles
ObserveSleep ==
    /\ steps < 3 * MaxObserveCycles
    /\ steps % 3 = 0
    /\ TickByCall(MONITORING_INTERVAL)

\* _update_block_numbers at the start of the cycle: the chain has moved on
\* by one block
ObserveBlock ==
    /\ steps % 3 = 1
    /\ UpdateBlockNumberBy("ethereum", 1)

\* the cycle fetches the position of chat 11's wallet and processes it; the
\* commit and the send succeed
ObserveProcess ==
    /\ steps % 3 = 2
    /\ \E i \in NextLevels(TrackerKey("0xAB", "Aave V3 (Ethereum)")) :
          ProcessPositionCall(11, "0xAB", "Aave V3 (Ethereum)",
                              ObservePosition(i), TRUE, TRUE)
    /\ UNCHANGED cycleVars

---------------------------------------------------------------------------
(* The two bounded histories filled beyond their capacity *)

\* rounds of one record_state and one check_and_alert call, a minute apart
MaxFillRounds == 62

\* the health factors the position passes through, never rising
FillLevels == <<2000, 1200>>

FillPosition(i) ==
    [health_factor |-> FillLevels[i], total_collateral_usd |-> 10000,
     total_debt_usd |-> 8000000 \div FillLevels[i]]

\* the levels the next observation may have: the last one or a lower one
FillNextLevels(key) ==
    IF key \notin DOMAIN state_history THEN 1..Len(FillLevels)
    ELSE LET last == state_history[key][Len(state_history[key])]
         IN  {i \in 1..Len(FillLevels) : FillLevels[i] <= last.health_factor}

\* a minute passes
FillTick ==
    /\ steps < 3 * MaxFillRounds
    /\ steps % 3 = 0
    /\ TickByCall(MONITORING_INTERVAL)

\* record_state with the position just fetched
FillRecord ==
    /\ steps % 3 = 1
    /\ \E i \in FillNextLevels(TrackerKey("0xAB", "Aave V3 (Ethereum)")) :
          RecordStateCall("0xAB", "Aave V3 (Ethereum)", FillPosition(i))

\* check_and_alert with the same position; the send succeeds
FillAlert ==
    /\ steps % 3 = 2
    /\ rs.op = "record_state"
    /\ CheckAndAlertCall(11, "0xAB", "Aave V3 (Ethereum)", rs.pos, TRUE)

Init ==
    /\ state_history = <<>>
    /\ confirmed_states = <<>>
    /\ block_numbers = <<>>
    /\ rs = NoCall
    /\ now = StartTime
    /\ alert_history = <<>>
    /\ health_history = <<>>
    /\ al = NoCall
    /\ thresholds = [c \in Chats |->
                       [alert_threshold |-> 1500, critical_threshold |-> 1100]]
    /\ gas_eth = <<>>
    /\ last_check = <<>>
    /\ health_factors = <<>>
    /\ snapshots = {}
    /\ ledger = <<>>
    /\ pl = NoCall
    /\ eth_block_number = StartBlock
    /\ eth_logs = [p \in CascadeProtocols |-> <<>>]
    /\ recent_liquidations = [p \in CascadeProtocols |-> <<>>]
    /\ last_checked_block = <<>>
    /\ cascade_alert_history = <<>>
    /\ cd = NoCall
    /\ cascade_returned = {}
    /\ alerts_paused = [c \in Chats |-> FALSE]
    /\ cycle_count = 0
    /\ cy = [op |-> "idle", users |-> <<>>, plan |-> <<>>, todo |-> <<>>,
             cascade_alerts |-> <<>>, done |-> <<>>, aborted |-> FALSE,
             aave_due |-> {}, aave_positions |-> <<>>]
    /\ running = FALSE
    /\ loop_pc = [l \in LoopIds |-> "none"]
    /\ stop_called = FALSE
    /\ ha = NoCall
    /\ uh = NoCall
    /\ steps = 0

NextTracker ==
    \/ \E c \in Chains : UpdateBlockNumber(c)
    \/ \E w \in Wallets, p \in Protocols, pos \in Positions : RecordState(w, p, pos)
    \/ \E w \in Wallets, p \in {<<>>} \cup {<<x>> : x \in Protocols} :
          ClearHistory(w, p)

SpecTracker == Init /\ [][NextTracker]_vars

NextAlerter ==
    \/ Tick
    \/ \E c \in Chats, t \in ThresholdChoices : SetThreshold(c, t)
    \/ \E g \in GasChoices : RefreshPrices(g)
    \/ \E c \in Chats, w \in Wallets, p \in AlertProtocols,
          pos \in AlertPositions, ok \in BOOLEAN :
          steps < MaxAlerterSteps /\ CheckAndAlert(c, w, p, pos, ok)
    \/ \E c \in Chats, w \in {<<>>} \cup {<<x>> : x \in Wallets} :
          steps < MaxAlerterSteps /\ ClearAlertHistory(c, w)

SpecAlerter == Init /\ [][NextAlerter]_vars

Next ==
    \/ Tick
    \/ \E c \in Chains : UpdateBlockNumber(c)
    \/ \E c \in Chats, t \in ThresholdChoices : SetThreshold(c, t)
    \/ \E g \in GasChoices : RefreshPrices(g)
    \/ \E c \in Chats, w \in Wallets, p \in Protocols, pos \in Positions,
          commit_ok \in BOOLEAN, send_ok \in BOOLEAN :
          ProcessPosition(c, w, p, pos, commit_ok, send_ok) /\ UNCHANGED cycleVars

Spec == Init /\ [][Next]_vars

\* the batched Aave fetch of a selected wallet fails: the batch raises and
\* _batch_fetch_aave_positions returns {}, or the wallet's call does not
\* decode and its entry is None; either way `if position:` skips the wallet
MonitorAaveFetchError(wallet) ==
    LET key == PollingKey(Lower(wallet), "Aave V3 (Ethereum)")
    IN  /\ steps < MaxSteps
        /\ ShouldCheck(Lower(wallet), "Aave V3 (Ethereum)")
        /\ pl' = [op |-> "fetch_error", path |-> "aave_batch", key |-> key,
                  health_factor |-> Inf, time |-> now,
                  found |-> FALSE, commit_failed |-> FALSE, recorded |-> FALSE,
                  known_before |-> key \in DOMAIN last_check]
        /\ rs' = NoCall
        /\ al' = NoCall
        /\ steps' = steps + 1
        /\ UNCHANGED engineVars
        /\ UNCHANGED <<state_history, confirmed_states, block_numbers, alert_history,
                       health_history, ledger, now, thresholds, gas_eth, last_check,
                       health_factors, snapshots>>

\* one adapter of _check_compound_positions when an RPC call of
\* CompoundV3Adapter.get_position raises: get_position catches every
\* Exception and returns None, which the caller takes for "no position"
CheckCompoundRpcError(wallet) ==
    LET key == PollingKey(wallet, "Compound V3 (Ethereum)")
    IN  /\ steps < MaxSteps
        /\ ShouldCheck(wallet, "Compound V3 (Ethereum)")
        /\ last_check' = Put(last_check, key, now)
        /\ health_factors' = Put(health_factors, key, Inf)
        /\ pl' = [op |-> "fetch_error", path |-> "compound_adapter", key |-> key,
                  health_factor |-> Inf, time |-> now,
                  found |-> FALSE, commit_failed |-> FALSE, recorded |-> TRUE,
                  known_before |-> key \in DOMAIN last_check]
        /\ rs' = NoCall
        /\ al' = NoCall
        /\ steps' = steps + 1
        /\ UNCHANGED engineVars
        /\ UNCHANGED <<state_history, confirmed_states, block_numbers, alert_history,
                       health_history, ledger, now, thresholds, gas_eth, snapshots>>

\* positions and chats of the retry runs
RetryPositions ==
    { [health_factor |-> 1300, total_collateral_usd |-> 10000, total_debt_usd |-> 6154],
      [health_factor |-> 2000, total_collateral_usd |-> 10000, total_debt_usd |-> 4000],
      [health_factor |-> 3000, total_collateral_usd |-> 10000, total_debt_usd |-> 2667] }

NextRetry ==
    \/ Tick
    \/ \E c \in PollChats, w \in Wallets, p \in AlertProtocols,
          pos \in RetryPositions, ok \in BOOLEAN : CheckAndAlert(c, w, p, pos, ok)
    \/ \E c \in PollChats : ClearAlertHistory(c, <<>>)

SpecRetry == Init /\ [][NextRetry]_vars

\* positions of the runs that clear the alert history
ClearPositions ==
    { [health_factor |-> 1000, total_collateral_usd |-> 10000, total_debt_usd |-> 8000],
      [health_factor |-> 1300, total_collateral_usd |-> 10000, total_debt_usd |-> 6154] }

NextClear ==
    \/ \E c \in Chats, w \in AlertWallets, p \in AlertProtocols,
          pos \in ClearPositions, ok \in BOOLEAN :
          steps < MaxClearSteps /\ CheckAndAlert(c, w, p, pos, ok)
    \/ \E c \in Chats, w \in {<<>>} \cup {<<x>> : x \in AlertWallets} :
          steps < MaxClearSteps /\ ClearAlertHistory(c, w)

SpecClear == Init /\ [][NextClear]_vars

NextPolling ==
    \/ \E d \in PollTickSteps : TickBy(d)
    \/ \E w \in Wallets, p \in Protocols, hf \in PollHealthFactors :
          RecordCheck(w, p, hf)
    \/ \E c \in PollChats, w \in Wallets, pos \in PollPositions,
          commit_ok \in BOOLEAN, send_ok \in BOOLEAN :
          MonitorAavePosition(c, w, pos, commit_ok, send_ok)
    \/ \E w \in Wallets : MonitorAaveNoPosition(w)
    \/ \E w \in Wallets : MonitorAaveFetchError(w)
    \/ \E w \in Wallets : CheckCompoundRpcError(w)
    \/ \E c \in PollChats, w \in Wallets,
          position \in {<<>>} \cup {<<x>> : x \in PollPositions},
          commit_ok \in BOOLEAN, send_ok \in BOOLEAN :
          CheckCompoundPositions(c, w, position, commit_ok, send_ok)

SpecPolling == Init /\ [][NextPolling]_vars

---------------------------------------------------------------------------
(* Properties of the Reorg-Safe State Tracker *)

RecordStateCalled == rs.op = "record_state"
DispatcherCalled == al.op = "check_and_alert"

\* the key's history as record_state left it (the current sample included)
HistoryAfter == state_history[rs.key]

CurrentState == [health_factor |-> rs.pos.health_factor,
                 total_collateral_usd |-> rs.pos.total_collateral_usd,
                 total_debt_usd |-> rs.pos.total_debt_usd,
                 block_number |-> rs.block_number]

\* block numbers of the history entries equivalent to the current observation
EquivalentBlocks ==
    { HistoryAfter[i].block_number : i \in
        { j \in 1..Len(HistoryAfter) : StatesMatch(HistoryAfter[j], CurrentState) } }

SetMin(S) == CHOOSE x \in S : \A y \in S : x <= y

\* the current observation has reached its required confirmation depth
DepthReached ==
    /\ Len(HistoryAfter) >= 2
    /\ EquivalentBlocks # {}
    /\ rs.block_number - SetMin(EquivalentBlocks) + 1
         >= (IF rs.pos.health_factor < 1300 THEN 2 ELSE 3)

\* C1: in a monitoring cycle the dispatcher is invoked for a position only
\* if the observation it is invoked with was confirmed by record_state
C1_DispatchOnlyConfirmed ==
    (RecordStateCalled /\ DispatcherCalled) =>
        /\ DepthReached
        /\ al.health_factor = rs.state[1].health_factor

\* C2: record_state returns None whenever the current observation has not
\* reached its required confirmation depth
C2_NoneUnlessConfirmed ==
    (RecordStateCalled /\ ~DepthReached) => rs.state = <<>>

\* C3: record_state makes the current observation the confirmed state iff
\* the history holds at least 2 samples and current block - earliest
\* equivalent block + 1 >= required (2 when hf < 1.3, else 3); the first
\* observation of a key never confirms
C3_ConfirmsIffDepthReached ==
    RecordStateCalled =>
        /\ rs.did_confirm <=> DepthReached
        /\ rs.did_confirm =>
             /\ rs.key \in DOMAIN confirmed_states
             /\ rs.state = <<confirmed_states[rs.key]>>
             /\ confirmed_states[rs.key].health_factor = rs.pos.health_factor
             /\ confirmed_states[rs.key].total_collateral_usd
                  = rs.pos.total_collateral_usd
             /\ confirmed_states[rs.key].total_debt_usd = rs.pos.total_debt_usd
             /\ confirmed_states[rs.key].confirmed_at_block = rs.block_number
        /\ ~rs.did_confirm =>
             Get(confirmed_states, rs.key) = rs.previous_confirmed
        /\ rs.history_before = <<>> => (~rs.did_confirm /\ rs.state = <<>>)

\* a non-critical observation confirmed at exactly the required depth of 3
C3_Witness ==
    /\ RecordStateCalled
    /\ rs.did_confirm
    /\ rs.pos.health_factor = 1300
    /\ rs.block_number - SetMin(EquivalentBlocks) + 1 = 3

\* the observation recorded just before the current one, and whether the
\* two are consecutive matching observations d blocks apart
PreviousState == rs.history_before[Len(rs.history_before)]
MatchingPair(d) ==
    /\ RecordStateCalled
    /\ rs.history_before # <<>>
    /\ StatesMatch(PreviousState, CurrentState)
    /\ rs.block_number - PreviousState.block_number = d

\* an equivalent history entry at least 2 blocks before the current one
OlderEquivalentEntry ==
    \E i \in 1..Len(rs.history_before) :
        /\ StatesMatch(rs.history_before[i], CurrentState)
        /\ rs.history_before[i].block_number <= rs.block_number - 2

\* C4 as claimed: matching non-critical observations 2 blocks apart do not
\* confirm, matching critical observations 2 blocks apart do
C4_Original ==
    MatchingPair(2) =>
        (IF rs.pos.health_factor >= 1300 THEN ~rs.did_confirm ELSE rs.did_confirm)

\* C4 as amended: block numbers 2 apart confirm in both classes; at block
\* numbers 1 apart the critical pair confirms and the non-critical pair
\* does not, unless an older equivalent entry lies 2 or more blocks back
C4_PairConfirmation ==
    /\ MatchingPair(2) => rs.did_confirm
    /\ (MatchingPair(1) /\ rs.pos.health_factor < 1300) => rs.did_confirm
    /\ (MatchingPair(1) /\ rs.pos.health_factor >= 1300) =>
           (rs.did_confirm <=> OlderEquivalentEntry)

\* a non-critical matching pair 1 block apart that did not confirm
C4_Witness ==
    /\ MatchingPair(1)
    /\ rs.pos.health_factor >= 1300
    /\ ~rs.did_confirm
    /\ rs.state = <<>>

\* the (critical, liquidatable) classification of a health factor
Classification(hf) == <<hf < 1300, hf <= 1000>>

\* C5: when record_state confirms, is-new is True exactly when nothing was
\* confirmed before for the key or the classification changed; when it
\* confirms nothing the flag is False
C5_IsNewFlag ==
    RecordStateCalled =>
        IF rs.did_confirm
        THEN rs.is_new <=>
               \/ rs.previous_confirmed = <<>>
               \/ Classification(rs.previous_confirmed[1].health_factor)
                    # Classification(rs.pos.health_factor)
        ELSE rs.is_new = FALSE

\* a confirmation that replaces a confirmed state of another classification
C5_Witness ==
    /\ RecordStateCalled
    /\ rs.did_confirm
    /\ rs.previous_confirmed # <<>>
    /\ rs.previous_confirmed[1].is_critical
    /\ rs.pos.health_factor <= 1000
    /\ rs.is_new

---------------------------------------------------------------------------
(* Properties of the Alert Dispatcher *)

HadRecord == DispatcherCalled /\ al.record_before # <<>>
RecordBefore == al.record_before[1]

\* HEALTHY < WARNING < CRITICAL < LIQUIDATABLE
Severity(status) ==
    CASE status = "healthy" -> 0
      [] status = "warning" -> 1
      [] status = "critical" -> 2
      [] status = "liquidatable" -> 3

StrictlyWorse == Severity(al.status) > Severity(RecordBefore.status)

\* the current health factor is more than 10% below the recorded one
DroppedOverTenPercent == al.health_factor * 10 < RecordBefore.health_factor * 9

Elapsed == al.time - RecordBefore.last_alert_time

\* the cooldown table: 5 min, 15 min, 1 h, 24 h
Cooldown(status) ==
    CASE status = "liquidatable" -> 5 * 60
      [] status = "critical" -> 15 * 60
      [] status = "warning" -> 60 * 60
      [] status = "healthy" -> 24 * 60 * 60

\* C6: with an AlertRecord, a strictly worse status always attempts a send,
\* with reason status_worsened, however little time has passed
C6_StatusWorsenedFires ==
    (HadRecord /\ StrictlyWorse) =>
        (al.attempted /\ al.reason = "status_worsened")

\* a worsened status alerted at the very time of the last alert
C6_Witness ==
    /\ HadRecord
    /\ StrictlyWorse
    /\ Elapsed = 0
    /\ al.attempted

\* C7: with an AlertRecord, status not worse, no drop over 10% and no rapid
\* deterioration, a send happens only once the cooldown of the current
\* status has elapsed; a second WARNING at the same HF is not re-sent
\* within 1 hour and is re-sent after more than 1 hour
C7_CooldownGate ==
    (HadRecord /\ ~StrictlyWorse /\ ~DroppedOverTenPercent /\ ~al.rapid) =>
        /\ al.attempted => Elapsed >= Cooldown(al.status)
        /\ ( /\ al.status = "warning"
             /\ RecordBefore.status = "warning"
             /\ al.health_factor = RecordBefore.health_factor ) =>
               /\ Elapsed < 3600 => ~al.attempted
               /\ Elapsed > 3600 => al.attempted

\* a second WARNING at the same HF, re-sent exactly when the hour is over
C7_Witness ==
    /\ HadRecord
    /\ ~al.rapid
    /\ al.status = "warning"
    /\ RecordBefore.status = "warning"
    /\ al.health_factor = RecordBefore.health_factor
    /\ Elapsed = 3600
    /\ al.attempted
    /\ al.reason = "cooldown_expired"

\* C8 as claimed: with a positive recorded health factor, a drop of more
\* than 10% (status not strictly worse) fires with significant_hf_drop
C8_Original ==
    ( /\ HadRecord
      /\ RecordBefore.health_factor > 0
      /\ DroppedOverTenPercent
      /\ ~StrictlyWorse ) =>
        (al.attempted /\ al.reason = "significant_hf_drop")

\* C8 as amended: the same, provided the current status is not HEALTHY or
\* rapid deterioration is detected; a HEALTHY status without rapid
\* deterioration sends nothing
C8_SignificantDropFires ==
    ( /\ HadRecord
      /\ RecordBefore.health_factor > 0
      /\ DroppedOverTenPercent
      /\ ~StrictlyWorse ) =>
        IF al.status # "healthy" \/ al.rapid
        THEN al.attempted /\ al.reason = "significant_hf_drop"
        ELSE ~al.attempted

\* a drop of more than 10% in the same status, alerted inside the cooldown
C8_Witness ==
    /\ HadRecord
    /\ DroppedOverTenPercent
    /\ al.status = RecordBefore.status
    /\ Elapsed < Cooldown(al.status)
    /\ al.attempted
    /\ al.reason = "significant_hf_drop"

\* C9 as claimed: with no AlertRecord the first observation always fires
\* with reason first_alert, whatever its status
C9_Original ==
    (DispatcherCalled /\ al.record_before = <<>>) =>
        (al.attempted /\ al.reason = "first_alert")

\* C9 as amended: with no AlertRecord the first observation fires with
\* reason first_alert if its status is not HEALTHY or rapid deterioration
\* is detected, and is not sent otherwise
C9_FirstAlertFires ==
    (DispatcherCalled /\ al.record_before = <<>>) =>
        IF al.status # "healthy" \/ al.rapid
        THEN al.attempted /\ al.reason = "first_alert"
        ELSE ~al.attempted

\* a first alert for a HEALTHY position that deteriorated rapidly
C9_Witness ==
    /\ DispatcherCalled
    /\ al.record_before = <<>>
    /\ al.status = "healthy"
    /\ al.rapid
    /\ al.attempted
    /\ al.reason = "first_alert"

\* C10: check_and_alert with status HEALTHY and no rapid deterioration sends
\* nothing, returns False and leaves every AlertRecord as it was
C10_HealthyNoAlert ==
    [][ ( /\ al'.op = "check_and_alert"
          /\ al'.status = "healthy"
          /\ ~al'.rapid ) =>
            /\ ~al'.attempted
            /\ al'.result = FALSE
            /\ alert_history' = alert_history ]_vars

\* a HEALTHY call, without rapid deterioration, on a key that has a record
C10_Witness ==
    /\ HadRecord
    /\ al.status = "healthy"
    /\ ~al.rapid
    /\ ~al.attempted
    /\ al.key \in DOMAIN alert_history


\* the recorded samples of the pair the dispatcher was called for, the
\* current one included
Samples == health_history[<<al.key[2], al.key[3]>>]

\* the earliest recorded health factor of the trailing 60 minutes
WindowStartHf ==
    Samples.health_factors[
        SetMin({ i \in 1..Len(Samples.timestamps) :
                    Samples.timestamps[i] >= al.time - 60 * 60 })]

\* C11: whenever the health factor has dropped by more than 10% over the
\* trailing 60 minutes of the recorded samples, check_and_alert fires, even
\* for a HEALTHY status and inside the cooldown, however the samples are
\* spaced in time
C11_RapidDropFires ==
    (DispatcherCalled /\ (WindowStartHf - al.health_factor) * 10 > WindowStartHf)
        => al.attempted

C13_FailedSendKeepsRecords ==
    [][ (al'.op = "check_and_alert" /\ al'.send_failed) =>
            /\ al'.result = FALSE
            /\ alert_history' = alert_history ]_vars

\* a failed send for a key whose AlertRecord is still the one it had
C13_Witness ==
    /\ HadRecord
    /\ al.send_failed
    /\ al.key \in DOMAIN alert_history
    /\ alert_history[al.key] = RecordBefore

\* the call for the same key that came before and whose send failed, and
\* whether the current call repeats its status and health factor
FailedCall == al.failed_before[1]
RetryOfFailed ==
    /\ DispatcherCalled
    /\ al.failed_before # <<>>
    /\ al.status = FailedCall.status
    /\ al.health_factor = FailedCall.health_factor

\* C14 as claimed: after a failed send the next call for the key with the
\* same status and health factor attempts the send again
C14_Original == RetryOfFailed => al.attempted

\* C14 as amended: the failed send leaves the AlertRecord as it was (no
\* cooldown is started); the next call with the same status and health
\* factor attempts the send again, for the same reason, when the status is
\* not HEALTHY and the failed attempt did not rest on rapid deterioration
\* alone, and also whenever rapid deterioration is detected again; a
\* HEALTHY retry without rapid deterioration is not sent
C14_RetryAfterFailure ==
    RetryOfFailed =>
        /\ al.record_before = FailedCall.record_before
        /\ (al.status # "healthy" /\ FailedCall.reason # "rapid_deterioration") =>
               (al.attempted /\ al.reason = FailedCall.reason)
        /\ al.rapid => al.attempted
        /\ (al.status = "healthy" /\ ~al.rapid) => ~al.attempted

\* a WARNING re-alert that failed once its cooldown was over and is
\* attempted again on the next call
C14_Witness ==
    /\ RetryOfFailed
    /\ HadRecord
    /\ al.status = "warning"
    /\ FailedCall.reason = "cooldown_expired"
    /\ al.attempted
    /\ al.reason = "cooldown_expired"

\* C15: an AlertRecord is created or changed only by a successful dispatch
\* for its key, which stores the dispatched status and health factor and
\* raises alert_count by exactly 1 (to 1 on creation); it is removed only by
\* clear_alert_history; alert_count is the number of successful dispatches
\* for the key since it was last cleared
C15_RecordLifecycle ==
    [][ /\ \A k \in DOMAIN alert_history' :
              (k \notin DOMAIN alert_history \/ alert_history'[k] # alert_history[k])
                  => ( /\ al'.op = "check_and_alert"
                       /\ al'.key = k
                       /\ al'.result )
        /\ (al'.op = "check_and_alert" /\ al'.result)
              => ( /\ al'.key \in DOMAIN alert_history'
                   /\ alert_history'[al'.key].status = al'.status
                   /\ alert_history'[al'.key].health_factor = al'.health_factor
                   /\ alert_history'[al'.key].alert_count =
                         IF al'.key \in DOMAIN alert_history
                         THEN alert_history[al'.key].alert_count + 1
                         ELSE 1 )
        /\ (DOMAIN alert_history \ DOMAIN alert_history' # {})
              => al'.op = "clear_alert_history"
        /\ \A k \in DOMAIN alert_history' :
              /\ k \in DOMAIN ledger'
              /\ alert_history'[k].alert_count = ledger'[k].sent ]_vars

\* the second successful dispatch for a key
C15_Witness ==
    /\ HadRecord
    /\ al.result
    /\ alert_history[al.key].alert_count = 2
    /\ ledger[al.key].sent = 2

ClearCalled == al.op = "clear_alert_history"

\* the key belongs to the chat (and, in the scoped form, the wallet) the
\* last clear_alert_history call named
NamedByClear(k) ==
    /\ k[1] = al.chat_id
    /\ (al.wallet_address = <<>> \/ k[2] = al.wallet_address[1])

\* C16: clear_alert_history(chat) removes exactly the AlertRecords of that
\* chat, clear_alert_history(chat, wallet) exactly those of that chat and
\* wallet; every other AlertRecord is left unchanged
C16_ClearRemovesExactly ==
    ClearCalled =>
        /\ DOMAIN alert_history =
              { k \in DOMAIN al.history_before : ~NamedByClear(k) }
        /\ \A k \in DOMAIN alert_history : alert_history[k] = al.history_before[k]

\* a scoped clear that removed a record and left one of the same chat for
\* another wallet and one of another chat for the same wallet
C16_Witness ==
    /\ ClearCalled
    /\ al.wallet_address # <<>>
    /\ \E k \in DOMAIN al.history_before : NamedByClear(k)
    /\ \E k \in DOMAIN alert_history :
          k[1] = al.chat_id /\ k[2] # al.wallet_address[1]
    /\ \E k \in DOMAIN alert_history :
          k[1] # al.chat_id /\ k[2] = al.wallet_address[1]

---------------------------------------------------------------------------
(* Properties of the Smart Polling Manager *)

\* record_check was called by the last polling step, for pl.key at pl.time
CheckRecorded == pl.op # "none" /\ pl.recorded
PairFetched == pl.op = "fetch"

\* the pair of the last polling step is due now
DueNow == ShouldCheck(pl.key[1], pl.key[2])

\* hf == inf -> 600 s; hf < 1.3 -> 30 s; hf < 2.0 -> 120 s; else 300 s
Interval(hf) ==
    IF hf = Inf THEN 600
    ELSE IF hf < 1300 THEN 30
    ELSE IF hf < 2000 THEN 120
    ELSE 300

\* C17: after record_check(wallet, protocol, hf) at time t, should_check is
\* False at every time before t + interval(hf) and True from then on, until
\* the next record_check for the key
C17_DueExactlyAfterInterval ==
    CheckRecorded => (DueNow <=> now >= pl.time + Interval(pl.health_factor))

\* record_check(hf = 0.5), and the pair due again exactly 30 s later
C17_Witness ==
    /\ pl.op = "record_check"
    /\ pl.health_factor = 500
    /\ now = pl.time + 30
    /\ DueNow

NeverChecked(w, p) == PollingKey(w, p) \notin DOMAIN last_check

\* C18: a pair that has never been checked has should_check() == True
C18_NeverCheckedIsDue ==
    \A w \in Wallets, p \in Protocols : NeverChecked(w, p) => ShouldCheck(w, p)

\* one pair checked and not due, while the other was never checked and is due
C18_Witness ==
    \E w \in Wallets, p1 \in Protocols, p2 \in Protocols :
        /\ ~NeverChecked(w, p1)
        /\ ~ShouldCheck(w, p1)
        /\ NeverChecked(w, p2)
        /\ ShouldCheck(w, p2)

\* C19 as claimed: a pair without a polling record is first fetched only
\* once the slowest interval of 600 s has passed, not on the first poll
C19_Original ==
    (PairFetched /\ ~pl.known_before) => pl.time >= StartTime + 600

\* C19 as amended: a pair without a polling record is treated as having an
\* infinite health factor (interval 600 s) and as last checked at time 0,
\* so it is due on the first poll after the wallet is added
C19_UnknownPairDueAtOnce ==
    \A w \in Wallets, p \in Protocols :
        NeverChecked(w, p) =>
            /\ IntervalOf(health_factors, w, p) = 600
            /\ ShouldCheck(w, p) <=> now >= 600
            /\ ShouldCheck(w, p)

\* a pair without a polling record fetched on the very first poll
C19_Witness ==
    /\ PairFetched
    /\ ~pl.known_before
    /\ pl.time = StartTime

\* C20: every fetch of a due pair (the snapshot commit of a found position
\* not failing) is followed by record_check for it, whether or not a
\* position was found; without a position the check is recorded with
\* hf = infinity and the pair is not due again before 600 s have passed, on
\* the batched Aave path and on the Compound path
C20_FetchAlwaysRecorded ==
    (PairFetched /\ ~pl.commit_failed) =>
        /\ pl.key \in DOMAIN last_check
        /\ last_check[pl.key] = pl.time
        /\ ~pl.found =>
              /\ health_factors[pl.key] = Inf
              /\ DueNow => now >= pl.time + 600


MaxCascadeSteps == 5
MaxDetectSteps == 4

\* the detector against a chain that carries liquidations of two protocols
NextCascade ==
    \/ \E d \in CascadeTickSteps : steps < MaxCascadeSteps /\ TickBy(d)
    \/ \E p \in CascadeProtocols, b \in Batches :
          steps < MaxCascadeSteps /\ MineBlock(p, b)
    \/ \E o \in [CascadeProtocols -> CheckOutcomes] :
          steps < MaxCascadeSteps /\ CheckForCascades(o)

SpecCascade == Init /\ [][NextCascade]_vars

\* the detector against windows on either side of every threshold
NextDetect ==
    \/ \E b \in DetectBatches : steps < MaxDetectSteps /\ MineBlock("Aave V3", b)
    \/ steps < MaxDetectSteps
       /\ CheckForCascades([p \in CascadeProtocols |-> "ok"])

SpecDetect == Init /\ [][NextDetect]_vars

MaxCycleSteps == 3

\* monitoring cycles over two users, between commands of the bot
NextCycle ==
    \/ \E c \in Chats, b \in BOOLEAN : SetAlertsPaused(c, b)
    \/ cy.op = "idle" /\ steps < MaxCycleSteps /\ UpdateBlockNumber("ethereum")
    \/ cy.op = "idle" /\ steps < MaxCycleSteps /\ TickBy(NO_POSITION_INTERVAL)
    \/ \E d \in CycleCascadeChoices : BeginCycle(d)
    \/ \E pos \in CyclePositions, commit_ok \in BOOLEAN, send_ok \in BOOLEAN,
          readable \in BOOLEAN :
          steps < MaxCycleSteps /\ CycleProcessPosition(pos, commit_ok, send_ok, readable)
    \/ CycleNoPosition
    \/ \E ok \in BOOLEAN : CycleSendCascadeAlerts(ok)
    \/ EndCycle

SpecCycle == Init /\ [][NextCycle]_vars

\* calls of start() and stop() on one engine
NextLifecycle ==
    \/ \E l \in LoopIds : StartCall(l)
    \/ \E l \in LoopIds : StartEnter(l)
    \/ \E l \in LoopIds : LoopTest(l)
    \/ \E l \in LoopIds : CycleEnd(l)
    \/ \E l \in LoopIds : SleepEnd(l)
    \/ Stop

SpecLifecycle == Init /\ [][NextLifecycle]_vars

\* calls of the health functions
NextHealth ==
    \/ \E pos \in HealthPositions, w \in HealthWarningThresholds,
          c \in HealthCriticalThresholds : AssessHealth(pos, w, c)
    \/ \E ps \in Portfolios : CalculateUnifiedHealthScore(ps)

SpecHealth == Init /\ [][NextHealth]_vars

NextObserve ==
    \/ ObserveSleep
    \/ ObserveBlock
    \/ ObserveProcess

\* a step of the loop: each of the three actions counts one step, and one of
\* them is enabled exactly while the followed cycles are not over
ObserveStep == steps < 3 * MaxObserveCycles /\ steps' = steps + 1

\* the monitoring loop keeps running (_run_loop: `while self._running`): the
\* sleep returns, the block number is read, the position is processed
SpecObserve == Init /\ [][NextObserve]_vars /\ WF_steps(ObserveStep)

NextFill ==
    \/ FillTick
    \/ FillRecord
    \/ FillAlert

SpecFill == Init /\ [][NextFill]_vars

NextShared ==
    \/ BeginSharedCycle
    \/ \E pos \in CyclePositions, send_ok \in BOOLEAN :
          CycleProcessPosition(pos, TRUE, send_ok, TRUE)
    \/ CycleNoPosition
    \/ EndCycle
    \/ cy.op = "idle" /\ UpdateBlockNumber("ethereum")
    \/ cy.op = "idle" /\ TickBy(NO_POSITION_INTERVAL)

SpecShared == Init /\ [][NextShared]_vars

\* C21: a failed fetch of a position leaves the Polling Manager's
\* last-check time and last-known health factor of the pair unchanged
C21_FetchErrorKeepsPolling ==
    [][ (pl'.op = "fetch_error") =>
            /\ last_check' = last_check
            /\ health_factors' = health_factors ]_vars

CascadeChecked == cd.op = "check_for_cascades"

\* the window of a protocol meets at least the warning condition
CascadeCondition(p) ==
    \/ Len(recent_liquidations[p]) >= 5
    \/ SumDebt(recent_liquidations[p]) >= 1000000

\* an alert for the protocol was returned less than 30 minutes before the
\* last check_for_cascades call
AlertedWithin30Min(p) ==
    \E r \in cd.returned_before : r.protocol = p /\ cd.time - r.time < 1800

\* C23: a detection for a protocol returns an alert exactly when the cascade
\* condition holds and no alert for that same protocol was returned in the
\* 30 minutes before; alerts returned for other protocols play no part, and
\* two alerts for one protocol are at least 30 minutes apart
C23_CooldownPerProtocol ==
    /\ CascadeChecked =>
           \A p \in CascadeProtocols :
               cd.detected[p] =>
                   (cd.alerts[p] # <<>> <=>
                        (CascadeCondition(p) /\ ~AlertedWithin30Min(p)))
    /\ \A r1, r2 \in cascade_returned :
           (r1.protocol = r2.protocol /\ r1.time < r2.time) =>
               r2.time - r1.time >= 1800

\* Aave V2 alerted at warning; its window has since grown to critical and the
\* detection inside the cooldown returns nothing, while the same call
\* returns an alert for Aave V3
C23_Witness ==
    /\ CascadeChecked
    /\ cd.detected["Aave V2"] /\ cd.alerts["Aave V2"] = <<>>
    /\ Len(recent_liquidations["Aave V2"]) >= 10
    /\ \E r \in cd.returned_before :
           r.protocol = "Aave V2" /\ r.severity = "warning"
    /\ cd.alerts["Aave V3"] # <<>>

\* the severity the last check_for_cascades call returned for a protocol
ReturnedSeverity(p) ==
    IF cd.alerts[p] = <<>> THEN "none" ELSE cd.alerts[p][1].severity

\* C24: outside the cooldown, a detection classifies the window by the first
\* match, most severe first: severe for 20 or more liquidations or $10M or
\* more, critical for 10 or more or $5M or more, warning for 5 or more or
\* $1M or more, and no alert otherwise or for an empty window
C24_SeverityClassification ==
    CascadeChecked =>
        \A p \in CascadeProtocols :
            (cd.detected[p] /\ ~AlertedWithin30Min(p)) =>
                LET n == Len(recent_liquidations[p])
                    v == SumDebt(recent_liquidations[p])
                IN  /\ (n = 0) => ReturnedSeverity(p) = "none"
                    /\ (n >= 20 \/ v >= 10000000) => ReturnedSeverity(p) = "severe"
                    /\ (n < 20 /\ v < 10000000 /\ (n >= 10 \/ v >= 5000000)) =>
                           ReturnedSeverity(p) = "critical"
                    /\ (n < 10 /\ v < 5000000 /\ (n >= 5 \/ v >= 1000000)) =>
                           ReturnedSeverity(p) = "warning"
                    /\ (n < 5 /\ v < 1000000) => ReturnedSeverity(p) = "none"
                    /\ cd.alerts[p] # <<>> =>
                           /\ cd.alerts[p][1].liquidation_count = n
                           /\ cd.alerts[p][1].total_value_usd = v

\* nineteen liquidations worth less than $5M are classified critical
C24_Witness ==
    /\ CascadeChecked
    /\ cd.detected["Aave V3"]
    /\ Len(recent_liquidations["Aave V3"]) = 19
    /\ SumDebt(recent_liquidations["Aave V3"]) < 5000000
    /\ ReturnedSeverity("Aave V3") = "critical"

\* C25: a liquidation event, identified by its block and its position in the
\* block, is in the protocol's rolling window at most once
C25_EventAppendedOnce ==
    \A p \in CascadeProtocols :
        \A i, j \in 1..Len(recent_liquidations[p]) :
            (i # j) =>
                <<recent_liquidations[p][i].block_number,
                  recent_liquidations[p][i].log_index>> #
                <<recent_liquidations[p][j].block_number,
                  recent_liquidations[p][j].log_index>>

\* the chain has moved past the block range the protocol was last checked to
HeadAdvanced(p) ==
    \/ p \notin DOMAIN cd.last_checked_before
    \/ cd.block_number > cd.last_checked_before[p]

\* C26: in one check_for_cascades call every protocol whose own RPC calls
\* succeed is checked up to the head of the chain and its alert is returned,
\* whatever errors the other protocols met
C26_ErrorsAreIsolated ==
    CascadeChecked =>
        \A p \in CascadeProtocols :
            (cd.outcome[p] = "ok" /\ HeadAdvanced(p)) =>
                /\ cd.detected[p]
                /\ last_checked_block[p] = cd.block_number
                /\ \A k \in 1..Len(eth_logs[p]) :
                       (/\ eth_logs[p][k].block_number <= cd.block_number
                        /\ p \in DOMAIN cd.last_checked_before
                               => eth_logs[p][k].block_number >
                                      cd.last_checked_before[p]) =>
                           \E e \in 1..Len(recent_liquidations[p]) :
                               /\ recent_liquidations[p][e].block_number =
                                      eth_logs[p][k].block_number
                               /\ recent_liquidations[p][e].log_index =
                                      eth_logs[p][k].log_index
                /\ cd.alerts[p] # <<>> <=>
                       (CascadeCondition(p) /\ ~AlertedWithin30Min(p))

\* the first protocol's check fails and the second protocol's alert is returned
C26_Witness ==
    /\ CascadeChecked
    /\ cd.outcome["Aave V2"] # "ok"
    /\ Len(eth_logs["Aave V2"]) > 0
    /\ cd.outcome["Aave V3"] = "ok"
    /\ cd.alerts["Aave V3"] # <<>>

\* C27: a position whose processing raises does not end the cycle: every
\* position, wallet, user and cascade dispatch the cycle planned is either
\* done or still to do
C27_FailureDoesNotStopCycle ==
    Len(cy.done) + Len(cy.todo) = Len(cy.plan)

\* the user was loaded by the cycle with alerts_paused set
PausedAtLoad(chat_id) ==
    \E u \in 1..Len(cy.users) :
        cy.users[u].chat_id = chat_id /\ cy.users[u].alerts_paused

\* C30: a cycle processes no position and dispatches no position alert and
\* no cascade alert for a user whose alerts were paused when it loaded the
\* users
C30_PausedUserSkipped ==
    \A i \in 1..Len(cy.done) : ~PausedAtLoad(cy.done[i].item.chat_id)

\* a finished cycle that loaded chat 22 paused: it processed a position of
\* chat 11 and sent chat 11 the cascade alert
C30_Witness ==
    /\ PausedAtLoad(22) /\ ~PausedAtLoad(11)
    /\ cy.op = "idle" /\ cy.cascade_alerts # <<>>
    /\ \E i \in 1..Len(cy.done) :
           cy.done[i].item.chat_id = 11 /\ cy.done[i].outcome = "processed"
    /\ \E i \in 1..Len(cy.done) :
           cy.done[i].item.chat_id = 11 /\ cy.done[i].outcome = "sent"

\* C28: at most one monitoring cycle is in progress at any time, also after
\* start() has been called a second time
C28_OneCycleAtATime ==
    Cardinality({l \in LoopIds : loop_pc[l] = "cycle"}) <= 1

\* C29: once stop() has been called, and start() has not been called again,
\* no new cycle begins, whether or not the start() called before it had
\* entered its loop
C29_NoCycleAfterStop ==
    [][ stop_called => ~(\E l \in LoopIds : loop_pc[l] # "cycle"
                                            /\ loop_pc'[l] = "cycle") ]_vars

\* the user tracks a wallet for which a position on the protocol of the
\* cascade alert has been found
HasExposure(chat_id, cascade_protocol) ==
    \E s \in snapshots :
        /\ \E w \in 1..Len(UserWallets[chat_id]) : UserWallets[chat_id][w] = s.wallet
        /\ cascade_protocol = "Aave V3"
        /\ s.protocol = "Aave V3 (Ethereum)"

\* C31: a cycle sends its cascade alerts only to users who have a position
\* on the protocol each alert is about
C31_CascadeOnlyToExposed ==
    \A i \in 1..Len(cy.done) :
        cy.done[i].outcome = "sent" =>
            \A k \in 1..Len(cy.cascade_alerts) :
                HasExposure(cy.done[i].item.chat_id, cy.cascade_alerts[k])

\* an assess_health call has been made
Assessed == ha.op = "assess_health"

\* C32: assess_health takes the first matching branch on hf: LIQUIDATABLE
\* for hf <= 1.0, else CRITICAL for hf <= critical_threshold, else WARNING
\* for hf <= warning_threshold, else HEALTHY; also when the thresholds are
\* inverted
C32_StatusWaterfall ==
    Assessed =>
        /\ (ha.position.health_factor <= 1000) => ha.status = "liquidatable"
        /\ (/\ ha.position.health_factor > 1000
            /\ ha.position.health_factor <= ha.critical_threshold)
               => ha.status = "critical"
        /\ (/\ ha.position.health_factor > 1000
            /\ ha.position.health_factor > ha.critical_threshold
            /\ ha.position.health_factor <= ha.warning_threshold)
               => ha.status = "warning"
        /\ (/\ ha.position.health_factor > 1000
            /\ ha.position.health_factor > ha.critical_threshold
            /\ ha.position.health_factor > ha.warning_threshold)
               => ha.status = "healthy"

\* inverted thresholds (critical 1.5, warning 1.1) and hf = 1.05, which both
\* bands hold: the critical branch decides
C32_Witness ==
    /\ Assessed
    /\ ha.critical_threshold = 1500 /\ ha.warning_threshold = 1100
    /\ ha.position.health_factor = 1050
    /\ ha.status = "critical"

\* C33: a position without debt is assessed HEALTHY with no recommendation,
\* whatever the thresholds
C33_NoDebtIsHealthy ==
    (Assessed /\ ha.position.total_debt_usd = 0) =>
        (ha.status = "healthy" /\ ha.recommendations = <<>>)

\* C35: the normalized score is 0 up to hf = 1.0, 80 at hf = 2.0, 100 from
\* hf = 10 on and for an infinite hf, and never decreases as hf grows
C35_NormalizedScore ==
    Assessed =>
        /\ (ha.health_factor <= 1000) => ha.normalized_score = 0
        /\ (ha.health_factor = 2000) => ha.normalized_score = 800000
        /\ (ha.health_factor >= 10000) => ha.normalized_score = 1000000
        /\ \A h \in HealthFactors :
               (h <= ha.health_factor) =>
                   CalculateNormalizedScore(h) <= ha.normalized_score

\* the score at hf = 2.0 is 80, above the score at 1.5 and below that at 3.0
C35_Witness ==
    /\ Assessed
    /\ ha.health_factor = 2000 /\ ha.normalized_score = 800000
    /\ CalculateNormalizedScore(1500) = 400000
    /\ CalculateNormalizedScore(3000) = 825000

\* a calculate_unified_health_score call has been made
UnifiedCalled == uh.op = "calculate_unified_health_score"

\* the status the fixed thresholds 1.0 / 1.1 / 1.5 give a health factor
FixedStatus(hf) ==
    IF hf <= 1000 THEN "liquidatable"
    ELSE IF hf <= 1100 THEN "critical"
    ELSE IF hf <= 1500 THEN "warning"
    ELSE "healthy"

\* the smallest health factor among the positions at the given indices
MinHfAt(positions, idx) ==
    CHOOSE m \in {positions[i].health_factor : i \in idx} :
        \A i \in idx : m <= positions[i].health_factor

\* the positions of the last call that carry debt
Indebted == {i \in 1..Len(uh.positions) : uh.positions[i].total_debt_usd > 0}

\* C34 as stated: status, score and worst position follow the minimum
\* health factor among all the given positions
C34_Original ==
    UnifiedCalled =>
        IF uh.positions = <<>>
        THEN /\ uh.result.overall_status = "healthy"
             /\ uh.result.overall_score = 1000000
             /\ uh.result.worst_position = <<>>
        ELSE LET m == MinHfAt(uh.positions, 1..Len(uh.positions))
             IN  /\ uh.result.overall_status = FixedStatus(m)
                 /\ uh.result.overall_score = CalculateNormalizedScore(m)
                 /\ uh.result.worst_position # <<>>
                 /\ uh.result.worst_position[1].health_factor = m

\* C34: status, score and worst position follow the minimum health factor
\* among the positions that have debt, never the debt-weighted average; with
\* no position in debt (or none at all, or only infinite health factors) the
\* result is HEALTHY, score 100 and no worst position
C34_WorstIndebtedDrives ==
    UnifiedCalled =>
        IF Indebted = {} \/ MinHfAt(uh.positions, Indebted) = Inf
        THEN /\ uh.result.overall_status = "healthy"
             /\ uh.result.overall_score = 1000000
             /\ uh.result.worst_position = <<>>
        ELSE LET m == MinHfAt(uh.positions, Indebted)
             IN  /\ uh.result.overall_status = FixedStatus(m)
                 /\ uh.result.overall_score = CalculateNormalizedScore(m)
                 /\ uh.result.worst_position # <<>>
                 /\ uh.result.worst_position[1].health_factor = m
                 /\ uh.result.worst_position[1].total_debt_usd > 0

\* the portfolio [3.0, 1.2], both in debt: WARNING with worst hf 1.2, while
\* the debt-weighted average is 2.7
C34_Witness ==
    /\ UnifiedCalled
    /\ Len(uh.positions) = 2
    /\ uh.positions[1].health_factor = 3000 /\ uh.positions[1].total_debt_usd = 5000
    /\ uh.positions[2].health_factor = 1200 /\ uh.positions[2].total_debt_usd = 1000
    /\ uh.result.overall_status = "warning"
    /\ uh.result.worst_position[1].health_factor = 1200
    /\ uh.result.weighted_health_factor = 2700

\* an alert about the watched position has been delivered to chat 11
AlertDelivered ==
    \E k \in DOMAIN ledger : k[1] = 11 /\ ledger[k].sent > 0

C37_ConfirmedOnlyIfConsistent ==
    (rs.op = "record_state" /\ rs.did_confirm) =>
        LET history == state_history[rs.key]
            new_state == history[Len(history)]
            matching == {i \in 1..Len(history) : StatesMatch(history[i], new_state)}
            first == CHOOSE i \in matching : \A j \in matching : i <= j
        IN  \A j \in first..Len(history) : StatesMatch(history[j], new_state)

\* C39: every key with a confirmed state has a state history, get_stats never
\* reports a negative pending_confirmation, and clear_history leaves neither
\* a history nor a confirmed state for a key it removed
C39_ConfirmedHasHistory ==
    /\ DOMAIN confirmed_states \subseteq DOMAIN state_history
    /\ GetStats(state_history, confirmed_states).pending_confirmation >= 0
    /\ rs.op = "clear_history" =>
          \A k \in rs.removed :
              k \notin DOMAIN state_history /\ k \notin DOMAIN confirmed_states

\* clear_history has just removed a key that had a confirmed state, while the
\* history of another key is kept
C39_Witness ==
    /\ rs.op = "clear_history"
    /\ rs.removed \cap rs.confirmed_before # {}
    /\ DOMAIN state_history # {}

\* C38: the tracker keeps at most 10 samples per key and a HealthHistory at
\* most 60, its timestamps and health factors are equally many, and a full
\* history that takes a new sample loses its oldest one and keeps the others
\* in order
C38_HistoriesBounded ==
    [][ /\ \A k \in DOMAIN state_history' :
              /\ Len(state_history'[k]) <= 10
              /\ (k \in DOMAIN state_history /\ Len(state_history[k]) = 10
                    /\ state_history'[k] # state_history[k])
                 => /\ Len(state_history'[k]) = 10
                    /\ SubSeq(state_history'[k], 1, 9) = Tail(state_history[k])
        /\ \A k \in DOMAIN health_history' :
              /\ Len(health_history'[k].timestamps) <= 60
              /\ Len(health_history'[k].timestamps) =
                     Len(health_history'[k].health_factors)
              /\ (k \in DOMAIN health_history
                    /\ Len(health_history[k].timestamps) = 60
                    /\ health_history'[k] # health_history[k])
                 => /\ Len(health_history'[k].timestamps) = 60
                    /\ SubSeq(health_history'[k].timestamps, 1, 59) =
                           Tail(health_history[k].timestamps)
                    /\ SubSeq(health_history'[k].health_factors, 1, 59) =
                           Tail(health_history[k].health_factors)
      ]_vars

\* both histories are full and have lost their first samples: the tracker's
\* was taken at the first minute, the HealthHistory's held the health factor
\* 2.0, which is no longer in it
C38_Witness ==
    /\ \E k \in DOMAIN state_history :
          /\ Len(state_history[k]) = 10
          /\ rs.op = "record_state" /\ Len(rs.history_before) = 10
    /\ \E k \in DOMAIN health_history :
          /\ Len(health_history[k].timestamps) = 60
          /\ health_history[k].timestamps[1] > StartTime + MONITORING_INTERVAL
          /\ health_history[k].health_factors[1] = 1200

\* the outcomes of a cycle item that mean _process_position ran for it
Served == {"processed", "alerted", "caught"}

\* C40: when two users track the same address, a position of that wallet
\* that a cycle processes for one user's chat is processed for the other
\* user's chat in the same cycle
C40_SharedWalletBothServed ==
    \A i, j \in 1..Len(cy.done) :
        (/\ cy.done[i].item.kind = cy.done[j].item.kind
         /\ Lower(cy.done[i].item.wallet) = Lower(cy.done[j].item.wallet)
         /\ cy.done[i].item.chat_id # cy.done[j].item.chat_id
         /\ cy.done[i].outcome \in Served)
        => cy.done[j].outcome \in Served

=============================================================================
